---- MODULE Spec2Model ----
(***************************************************************************)
(* The action execution engine of artifacts-mmo: the per-character worker  *)
(* loop and tree-walking executor of src/src/scheduler.py, the remote call *)
(* and the meta actions of src/src/character.py, and the bank reservation  *)
(* ledger of src/src/worldstate.py.                                        *)
(*                                                                         *)
(* All coroutines run on one asyncio event loop: the code between two      *)
(* suspension points (asyncio.sleep, the HTTP request) runs atomically.    *)
(* `running` names the worker that holds the event loop; the command line  *)
(* (abort, queue), the server's replies and the clock act only while no    *)
(* worker holds it.                                                        *)
(*                                                                         *)
(* Time is kept relative to the clock, in ticks of half a second:          *)
(* remaining_cooldown[c] is max(0, cooldown_expires_at - time.time()) of   *)
(* character c, sleep_remaining[c] what is left of its worker's            *)
(* asyncio.sleep.                                                          *)
(***************************************************************************)
EXTENDS Integers, Sequences, FiniteSets, TLC

Chars == {"a", "b"}
Items == {"copper_ore", "ash_wood"}

\* Bounds of the model.
MaxQueue == 2       \* nodes waiting in one character's queue
MaxCooldown == 2    \* longest cooldown the server hands out, in ticks
MaxBank == 2        \* largest raw quantity in a bank snapshot
Sat == 2            \* loop counters of the history saturate here
MaxChildren == 3    \* most children of a condition expression under construction

\* Program constants.
retry_max == 3      \* scheduler.py:144
RetrySleep == 2     \* scheduler.py:176, asyncio.sleep(1) in half-second ticks
IdleSleep == 1      \* scheduler.py:81, asyncio.sleep(0.5) in half-second ticks

Min(x, y) == IF x < y THEN x ELSE y
Max(x, y) == IF x > y THEN x ELSE y

(***************************************************************************)
(* Plan nodes (src/src/action.py, built by the factories).  An optional    *)
(* field is a sequence of length 0 or 1.                                   *)
(***************************************************************************)
CharacterAction ==
    {"REST", "FIGHT", "GET_TASK", "COMPLETE_TASK", "TASK_TRADE", "BANK_DEPOSIT_GOLD",
     "MOVE", "GATHER", "BANK_DEPOSIT_ITEM", "BANK_WITHDRAW_ITEM", "BANK_WITHDRAW_GOLD",
     "CRAFT", "EQUIP"}
MetaAction == {"FORCE_SUCCESS", "FORCE_FAIL", "FAIL_OUT", "CREATE_ITEM_RESERVATION",
               "UPDATE_ITEM_RESERVATION", "CLEAR_ITEM_RESERVATION", "SET_CONTEXT",
               "UPDATE_CONTEXT"}

Action(type, items, quantity) ==
    [kind |-> "Action", type |-> type, items |-> items, quantity |-> quantity]

rest == Action("REST", <<>>, 0)
fight == Action("FIGHT", <<>>, 0)
get_task == Action("GET_TASK", <<>>, 0)
complete_task == Action("COMPLETE_TASK", <<>>, 0)
task_trade(item, quantity) == Action("TASK_TRADE", <<[code |-> item, quantity |-> quantity]>>, 0)
bank_deposit_gold(quantity) == Action("BANK_DEPOSIT_GOLD", <<>>, quantity)
move == Action("MOVE", <<>>, 0)
\* move(x=..., y=...), bank_withdraw_item(items=...), bank_withdraw_gold(quantity=...),
\* craft(quantity=...) and equip(use_queue=True)
move_to(x, y) ==
    [kind |-> "Action", type |-> "MOVE", items |-> <<>>, quantity |-> 0, x |-> x, y |-> y]
bank_withdraw_item(items) == Action("BANK_WITHDRAW_ITEM", items, 0)
bank_withdraw_gold(quantity) == Action("BANK_WITHDRAW_GOLD", <<>>, quantity)
craft(quantity) == Action("CRAFT", <<>>, quantity)
equip_from_queue ==
    [kind |-> "Action", type |-> "EQUIP", items |-> <<>>, quantity |-> 0,
     use_queue |-> TRUE]

\* A value of a params dict: a literal, or a ContextValue naming a key of the
\* agent's context; slot tells the dict entries that hold such a value apart.
Literal(v) == [kind |-> "literal", v |-> v]
ContextValue(key, slot) == [kind |-> "ContextValue", key |-> key, slot |-> slot]
ContextAction(type, key, value) ==
    [kind |-> "Action", type |-> type, items |-> <<>>, quantity |-> 0, key |-> key,
     value |-> value]
set_context(key, value) == ContextAction("SET_CONTEXT", key, value)
update_context(key, value) == ContextAction("UPDATE_CONTEXT", key, value)
gather == Action("GATHER", <<>>, 0)
bank_all_items == Action("BANK_DEPOSIT_ITEM", <<>>, 0)
force_success == Action("FORCE_SUCCESS", <<>>, 0)
fail_action == Action("FAIL_OUT", <<>>, 0)
force_fail == Action("FORCE_FAIL", <<>>, 0)
add_item_reservations(items) == Action("CREATE_ITEM_RESERVATION", items, 0)
update_item_reservations(items) == Action("UPDATE_ITEM_RESERVATION", items, 0)
clear_item_reservations(items) == Action("CLEAR_ITEM_RESERVATION", items, 0)

group(actions) == [kind |-> "ActionGroup", actions |-> actions]
do_nothing == group(<<>>)

IF_(branches, fail_path) ==
    [kind |-> "ActionControlNode", control_operator |-> "IF",
     branches |-> branches, fail_path |-> fail_path]
WHILE_(node, condition) ==
    [kind |-> "ActionControlNode", control_operator |-> "WHILE",
     node |-> node, condition |-> condition]
DO_WHILE(node, condition) ==
    [kind |-> "ActionControlNode", control_operator |-> "DO_WHILE",
     node |-> node, condition |-> condition]
TRY(node, success_path, error_path, finally_path) ==
    [kind |-> "ActionControlNode", control_operator |-> "TRY", node |-> node,
     success_path |-> success_path, error_path |-> error_path,
     finally_path |-> finally_path]

DeferredPlanNode(resolver) == [kind |-> "DeferredPlanNode", resolver |-> resolver]

\* The dataclass ActionControlNode of action.py as its constructor takes it
\* (a field that is None is <<>>; branches is <<>> or <<the list>>), and its
\* __post_init__: TRUE when no assertion fails.
ControlOperator == <<"IF", "REPEAT", "DO_WHILE", "TRY">>
ActionControlNode(control_operator, branches, fail_path, control_node, until, action_node, condition, error_path, finally_path) ==
    [control_operator |-> control_operator, branches |-> branches,
     fail_path |-> fail_path, control_node |-> control_node, until |-> until,
     action_node |-> action_node, condition |-> condition,
     error_path |-> error_path, finally_path |-> finally_path]

control_post_init(self) ==
    /\ self.control_operator = "IF" =>
          /\ self.branches # <<>> /\ Len(self.branches[1]) > 0
          /\ self.control_node = <<>>
          /\ self.until = <<>>
          /\ self.action_node = <<>>
          /\ self.condition = <<>>
          /\ self.error_path = <<>>
          /\ self.finally_path = <<>>
    /\ self.control_operator = "REPEAT" =>
          /\ self.control_node # <<>>
          /\ self.until # <<>>
          /\ self.branches = <<>>
          /\ self.fail_path = <<>>
          /\ self.action_node = <<>>
          /\ self.condition = <<>>
          /\ self.error_path = <<>>
          /\ self.finally_path = <<>>
    /\ self.control_operator = "DO_WHILE" =>
          /\ self.action_node # <<>>
          /\ self.condition # <<>>
          /\ self.branches = <<>>
          /\ self.fail_path = <<>>
          /\ self.control_node = <<>>
          /\ self.until = <<>>
          /\ self.error_path = <<>>
          /\ self.finally_path = <<>>
    /\ self.control_operator = "TRY" =>
          /\ self.branches = <<>>
          /\ self.fail_path = <<>>
          /\ self.control_node = <<>>
          /\ self.until = <<>>
          /\ self.action_node = <<>>
          /\ self.condition = <<>>

(***************************************************************************)
(* Condition expressions (src/src/condition_factories.py).                 *)
(***************************************************************************)
cond(condition, item, quantity) ==
    [operator |-> "None", condition |-> condition, item |-> item,
     quantity |-> quantity, children |-> <<>>]
NOT(expr) ==
    [operator |-> "NOT", condition |-> "None", item |-> "", quantity |-> 0,
     children |-> <<expr>>]
AND(exprs) ==
    [operator |-> "AND", condition |-> "None", item |-> "", quantity |-> 0,
     children |-> exprs]
OR(exprs) ==
    [operator |-> "OR", condition |-> "None", item |-> "", quantity |-> 0,
     children |-> exprs]
FOREVER == cond("FOREVER", "", 0)
cond__context_value_equals(key, value) ==
    [operator |-> "None", condition |-> "CONTEXT_VALUE_EQUALS", item |-> "",
     quantity |-> 0, children |-> <<>>, key |-> key, value |-> value]

\* The dataclass ActionConditionExpression as its constructor takes it, and
\* its __post_init__: TRUE when no assertion fails.
ActionConditionExpression(operator, condition, children) ==
    [operator |-> operator, condition |-> condition, item |-> "", quantity |-> 0,
     children |-> children]

expression_post_init_unchecked(self) == TRUE
expression_post_init(self) ==
    /\ self.operator # "None" =>
          /\ self.condition = "None"
          /\ IF self.operator = "NOT"
             THEN self.children # <<>> /\ Len(self.children) = 1
             ELSE self.children # <<>> /\ Len(self.children) >= 2
    /\ self.operator = "None" =>
          /\ self.condition # "None"
          /\ self.children = <<>>
TASK_COMPLETE == cond("TASK_COMPLETE", "", 0)
cond__item_qty_in_bank(item, quantity) ==
    cond("BANK_HAS_ITEM_OF_QUANTITY", item, quantity)

VARIABLES
    scenario,            \* the run's environment: who registers, what is queued
    agents,              \* ActionScheduler.agents: the registered names
    queues,              \* ActionScheduler.queues
    worker_tasks,        \* ActionScheduler.worker_tasks: each worker's position
    running,             \* the worker holding the event loop, or "none"
    stack,               \* each worker's chain of _process_node activations
    ret,                 \* the value the last activation returned, with its frame
    abort_actions,       \* CharacterAgent.abort_actions
    char_data,           \* CharacterAgent.char_data: the task counters of it
    remaining_cooldown,  \* CharacterAgent.cooldown_expires_at - time.time()
    sleep_remaining,     \* what is left of the worker's asyncio.sleep
    api_result,          \* the remote call: none, pending, or the reply
    bank_data,           \* WorldState._bank_data
    bank_reservations,   \* WorldState.bank_reservations
    log,                 \* the worker's last log line about a queued node
    abort_info,          \* history: where the abort met the node in progress
    registrations,       \* history: the calls of add_character per name
    context,             \* CharacterAgent.context
    resolved,            \* the params of the plan in progress that a resolution
                         \* has overwritten, with the value written
    action_mode,         \* CharacterAgent.action_mode
    use_replenish_threshold,  \* PantryGoal.use_replenish_threshold, per pantry goal
    tracked,             \* GoalCoordinator._tracked_characters: name -> inventory
    pantry_seen          \* history: what the coordinator last saw of each pantry goal

vars == <<scenario, agents, queues, worker_tasks, running, stack, ret,
          abort_actions, char_data, remaining_cooldown, sleep_remaining, api_result,
          bank_data, bank_reservations, log, abort_info, registrations, context,
          resolved, action_mode, use_replenish_threshold, tracked, pantry_seen>>

(***************************************************************************)
(* The bank and the reservation ledger (src/src/worldstate.py).            *)
(***************************************************************************)
EmptyDict == [x \in {} |-> 0]
Remove(f, k) == [x \in DOMAIN f \ {k} |-> f[x]]
Put(f, k, v) == [x \in DOMAIN f \cup {k} |-> IF x = k THEN v ELSE f[x]]

RECURSIVE SumOver(_, _)
SumOver(f, S) ==
    IF S = {} THEN 0
    ELSE LET x == CHOOSE y \in S : TRUE IN f[x] + SumOver(f, S \ {x})

get_amount_of_item_reserved_in_bank(br, item) ==
    SumOver([character \in DOMAIN br |->
                IF item \in DOMAIN br[character] THEN br[character][item] ELSE 0],
            DOMAIN br)

amount_in_bank_unreserved(bd, br, item) ==
    IF item \in DOMAIN bd THEN bd[item] ELSE 0
get_amount_of_item_in_bank(bd, br, item) ==
    IF item \in DOMAIN bd
    THEN bd[item] - get_amount_of_item_reserved_in_bank(br, item)
    ELSE 0

update_bank_data_keeps_old(list, acc) ==
    LET codes == {list[k].code : k \in 1..Len(list)} IN
    [i \in DOMAIN bank_data \cup codes |->
        IF i \in codes
        THEN list[CHOOSE k \in 1..Len(list) : list[k].code = i].quantity
        ELSE bank_data[i]]
RECURSIVE update_bank_data(_, _)
update_bank_data(list, acc) ==
    IF list = <<>> THEN acc
    ELSE update_bank_data(Tail(list), Put(acc, Head(list).code, Head(list).quantity))

set_bank_reservation_fresh_ledger(br, character, item, quantity) ==
    Put(EmptyDict, character, Put(EmptyDict, item, quantity))
set_bank_reservation(br, character, item, quantity) ==
    Put(br, character,
        Put(IF character \in DOMAIN br THEN br[character] ELSE EmptyDict, item, quantity))

\* [ok, br]: ok is FALSE when the code raises
update_bank_reservation(br, character, item, qty_delta) ==
    IF character \notin DOMAIN br \/ item \notin DOMAIN br[character]
    THEN [ok |-> FALSE, br |-> br]
    ELSE LET q == br[character][item] + qty_delta IN
         [ok |-> TRUE,
          br |-> IF q = 0 THEN Put(br, character, Remove(br[character], item))
                 ELSE Put(br, character, Put(br[character], item, q))]

\* item is "" for the call without an item
clear_bank_reservation_all_holders(br, character, item) ==
    [ok |-> TRUE, br |-> EmptyDict]
clear_bank_reservation(br, character, item) ==
    IF character \in DOMAIN br /\ DOMAIN br[character] # {}
    THEN IF item = "" THEN [ok |-> TRUE, br |-> Remove(br, character)]
         ELSE IF item \in DOMAIN br[character]
              THEN [ok |-> TRUE, br |-> Put(br, character, Remove(br[character], item))]
              ELSE [ok |-> FALSE, br |-> br]
    ELSE [ok |-> TRUE, br |-> br]

Holds(br, character) ==
    IF character \in DOMAIN br THEN DOMAIN br[character] ELSE {}

(***************************************************************************)
(* The condition evaluator (ActionScheduler._evaluate_condition) and the   *)
(* predicates of CharacterAgent it dispatches to.                          *)
(***************************************************************************)
\* CharacterAgent._get_quantity_of_item_in_inventory on char_data
get_quantity_of_item_in_inventory(data, item) ==
    IF item \in DOMAIN data.inventory THEN data.inventory[item] ELSE 0

\* the conditions on the bank pass in_bank alone
get_quantity_of_item_available_in_inv_too(bd, br, item) ==
    get_quantity_of_item_in_inventory(char_data[running], item)
        + get_amount_of_item_in_bank(bd, br, item)
get_quantity_of_item_available(bd, br, item) ==
    0 + get_amount_of_item_in_bank(bd, br, item)

has_quantity_of_item_available(bd, br, item, quantity) ==
    get_quantity_of_item_available(bd, br, item) >= quantity

\* CharacterAgent.has_completed_task, and the part of char_data it reads
CharData(task_progress, task_total) ==
    [task_progress |-> task_progress, task_total |-> task_total,
     inventory |-> EmptyDict, x |-> 0, y |-> 0]
WithInventory(data, inventory) == [data EXCEPT !.inventory = inventory]
At(data, x, y) == [data EXCEPT !.x = x, !.y = y]
has_completed_task(data) == data.task_progress = data.task_total

\* ContextValue.resolve: the value of the key in the agent's context
resolve(c, value) == context[c][value.key]

\* lines 130-133 and 296-299: what params[parameter] holds after the loop over
\* the params.  A ContextValue is replaced in the dict by what it resolves
\* to, so an entry that was resolved before holds that value and is not a
\* ContextValue any more.
params_get(c, value) ==
    IF value.kind # "ContextValue" THEN value.v
    ELSE IF value \in DOMAIN resolved[c] THEN resolved[c][value]
    ELSE resolve(c, value)

\* lines 303-305: the value of the condition FOREVER
forever_not_met == FALSE
forever_met == TRUE

\* The agent of an evaluation is the one whose worker holds the event loop.
RECURSIVE evaluate_condition(_, _, _)
RECURSIVE all_children(_, _, _)
RECURSIVE any_children(_, _, _)
all_children(bd, br, children) ==
    IF children = <<>> THEN TRUE
    ELSE IF ~evaluate_condition(bd, br, Head(children)) THEN FALSE
    ELSE all_children(bd, br, Tail(children))
any_children_needs_all(bd, br, children) == all_children(bd, br, children)
any_children(bd, br, children) ==
    IF children = <<>> THEN FALSE
    ELSE IF evaluate_condition(bd, br, Head(children)) THEN TRUE
    ELSE any_children(bd, br, Tail(children))
evaluate_condition(bd, br, expression) ==
    IF expression.operator = "None" /\ expression.condition = "None" THEN TRUE
    ELSE IF expression.condition # "None"
    THEN CASE expression.condition = "FOREVER" -> forever_met
           [] expression.condition = "TASK_COMPLETE" ->
                has_completed_task(char_data[running])
           [] expression.condition = "BANK_HAS_ITEM_OF_QUANTITY" ->
                has_quantity_of_item_available(bd, br, expression.item,
                                               expression.quantity)
           [] expression.condition = "CONTEXT_VALUE_EQUALS" ->
                context[running][expression.key] = params_get(running, expression.value)
    ELSE CASE expression.operator = "AND" -> all_children(bd, br, expression.children)
           [] expression.operator = "OR" -> any_children(bd, br, expression.children)
           [] expression.operator = "NOT" ->
                ~evaluate_condition(bd, br, expression.children[1])

\* The entries an evaluation of the expression overwrites (lines 296-299), on
\* top of res: those of the leaves it reaches, all() and any() stopping at
\* the first child that decides.
RECURSIVE resolve_params(_, _, _, _)
RECURSIVE resolve_children(_, _, _, _, _)
resolve_children(bd, br, children, res, decides) ==
    IF children = <<>> THEN res
    ELSE LET r == resolve_params(bd, br, Head(children), res) IN
         IF evaluate_condition(bd, br, Head(children)) = decides THEN r
         ELSE resolve_children(bd, br, Tail(children), r, decides)
resolve_params(bd, br, expression, res) ==
    IF expression.operator = "None" /\ expression.condition = "None" THEN res
    ELSE IF expression.condition # "None"
    THEN IF /\ expression.condition = "CONTEXT_VALUE_EQUALS"
            /\ expression.value.kind = "ContextValue"
         THEN Put(res, expression.value, params_get(running, expression.value))
         ELSE res
    ELSE CASE expression.operator = "AND" ->
                resolve_children(bd, br, expression.children, res, FALSE)
           [] expression.operator = "OR" ->
                resolve_children(bd, br, expression.children, res, TRUE)
           [] expression.operator = "NOT" ->
                resolve_params(bd, br, expression.children[1], res)

\* the same for the branches of an IF, which stops at the first that holds
RECURSIVE resolve_branches(_, _, _, _)
resolve_branches(bd, br, branches, res) ==
    IF branches = <<>> THEN res
    ELSE LET r == resolve_params(bd, br, Head(branches)[1], res) IN
         IF evaluate_condition(bd, br, Head(branches)[1]) THEN r
         ELSE resolve_branches(bd, br, Tail(branches), r)

\* The index of the branch _evaluate_control_branches returns, 0 for fail_path.
RECURSIVE control_branch_from(_, _, _, _)
control_branch_from(bd, br, branches, k) ==
    IF k > Len(branches) THEN 0
    ELSE IF evaluate_condition(bd, br, branches[k][1]) THEN k
    ELSE control_branch_from(bd, br, branches, k + 1)

RECURSIVE control_branch_last(_, _, _, _)
control_branch_last(bd, br, branches, k) ==
    IF k > Len(branches) THEN 0
    ELSE LET later == control_branch_last(bd, br, branches, k + 1) IN
         IF later # 0 THEN later
         ELSE IF evaluate_condition(bd, br, branches[k][1]) THEN k ELSE 0

control_branch_index_last(bd, br, control_node) ==
    control_branch_last(bd, br, control_node.branches, 1)
control_branch_index(bd, br, control_node) ==
    control_branch_from(bd, br, control_node.branches, 1)

evaluate_control_branches(bd, br, control_node) ==
    LET k == control_branch_index(bd, br, control_node) IN
    IF k = 0 THEN control_node.fail_path ELSE <<control_node.branches[k][2]>>

(***************************************************************************)
(* CharacterAgent.meta_perform: [outcome, br], outcome "raise" when the    *)
(* ledger raises (the entries written before it stay written) or the type  *)
(* is one meta_perform has no case for, as FAIL_OUT of fail_action.        *)
(***************************************************************************)
RECURSIVE create_reservations(_, _, _)
create_reservations(br, name, items) ==
    IF items = <<>> THEN br
    ELSE create_reservations(
            set_bank_reservation(br, name, Head(items).code, Head(items).quantity),
            name, Tail(items))

RECURSIVE update_reservations(_, _, _)
update_reservations(br, name, items) ==
    IF items = <<>> THEN [ok |-> TRUE, br |-> br]
    ELSE LET r == update_bank_reservation(br, name, Head(items).code,
                                          Head(items).quantity) IN
         IF r.ok THEN update_reservations(r.br, name, Tail(items)) ELSE r

RECURSIVE clear_reservations(_, _, _)
clear_reservations(br, name, items) ==
    IF items = <<>> THEN [ok |-> TRUE, br |-> br]
    ELSE LET r == clear_bank_reservation(br, name, Head(items).code) IN
         IF r.ok THEN clear_reservations(r.br, name, Tail(items)) ELSE r

meta_perform(br, name, action) ==
    CASE action.type = "FORCE_SUCCESS" -> [outcome |-> "SUCCESS", br |-> br]
      [] action.type = "FORCE_FAIL" -> [outcome |-> "FAIL", br |-> br]
      [] action.type = "CREATE_ITEM_RESERVATION" ->
            [outcome |-> "SUCCESS", br |-> create_reservations(br, name, action.items)]
      [] action.type = "UPDATE_ITEM_RESERVATION" ->
            LET r == update_reservations(br, name, action.items) IN
            [outcome |-> IF r.ok THEN "SUCCESS" ELSE "raise", br |-> r.br]
      [] action.type = "CLEAR_ITEM_RESERVATION" ->
            LET r == clear_reservations(br, name, action.items) IN
            [outcome |-> IF r.ok THEN "SUCCESS" ELSE "raise", br |-> r.br]
      [] action.type = "SET_CONTEXT" -> [outcome |-> "SUCCESS", br |-> br]
      [] action.type = "UPDATE_CONTEXT" ->
            [outcome |-> IF action.key \in DOMAIN context[name] THEN "SUCCESS" ELSE "raise",
             br |-> br]
      [] OTHER -> [outcome |-> "raise", br |-> br]

\* the context of the agent after meta_perform (character.py:395-405)
meta_perform_context(name, action) ==
    CASE action.type = "SET_CONTEXT" ->
            Put(context[name], action.key, params_get(name, action.value))
      [] action.type = "UPDATE_CONTEXT" /\ action.key \in DOMAIN context[name] ->
            Put(context[name], action.key,
                context[name][action.key] + params_get(name, action.value))
      [] OTHER -> context[name]

(***************************************************************************)
(* CharacterAgent.perform.  The part before the request decides an outcome *)
(* without a remote call ("" when the request is sent); the part after it  *)
(* maps the reply.                                                         *)
(***************************************************************************)
\* lines 596 and 561: the queue of items to equip (empty when the key is
\* not in the context), and the withdrawals with a positive quantity
equip_queue(c) ==
    IF "equip_queue" \in DOMAIN context[c] THEN context[c]["equip_queue"] ELSE <<>>
items_to_withdraw(action) == SelectSeq(action.items, LAMBDA item : item.quantity > 0)

perform_always_sends(action) == ""
perform_local(action) ==
    CASE action.type = "MOVE" /\ "x" \in DOMAIN action ->
            IF <<action.x, action.y>> = <<char_data[running].x, char_data[running].y>>
            THEN "CANCEL" ELSE ""
      [] action.type = "BANK_DEPOSIT_ITEM" ->
            IF char_data[running].inventory = EmptyDict THEN "CANCEL" ELSE ""
      [] action.type = "BANK_WITHDRAW_ITEM" ->
            IF items_to_withdraw(action) = <<>> THEN "CANCEL" ELSE ""
      [] action.type \in {"BANK_DEPOSIT_GOLD", "BANK_WITHDRAW_GOLD", "CRAFT"} ->
            IF action.quantity = 0 THEN "CANCEL" ELSE ""
      [] action.type = "EQUIP" /\ "use_queue" \in DOMAIN action ->
            IF Len(equip_queue(running)) = 0 THEN "CANCEL" ELSE ""
      [] OTHER -> ""

\* the context of the agent when perform sends the request: a move records
\* where the character was (line 508), equip-from-queue pops the last item
\* of the queue (line 602)
perform_context(c, action) ==
    CASE action.type = "MOVE" ->
            Put(context[c], "previous_location", <<char_data[c].x, char_data[c].y>>)
      [] action.type = "EQUIP" /\ "use_queue" \in DOMAIN action ->
            Put(context[c], "equip_queue",
                SubSeq(equip_queue(c), 1, Len(equip_queue(c)) - 1))
      [] OTHER -> context[c]

perform_outcome(detail) ==
    CASE detail = "OK" -> "SUCCESS"
      [] detail \in {"NOT_FOUND", "INVALID_PAYLOAD", "MISSING_REQUIRED_ITEMS",
                     "LEVEL_TOO_LOW", "INVENTORY_FULL", "NO_INTERACTION"} -> "FAIL"
      [] detail = "ALREADY_AT_DESTINATION" -> "FAIL_CONTINUE"
      [] detail = "ON_COOLDOWN" -> "FAIL_RETRY"
      [] OTHER -> "raise"

(***************************************************************************)
(* The environment of a run: which characters the command line registers,  *)
(* the plans it queues for each, and what the server answers.              *)
(***************************************************************************)
Bit(n, k) == (n \div (2 ^ k)) % 2 = 1
Opt(present, node) == IF present THEN <<node>> ELSE <<>>
Entry(code, quantity) == [code |-> code, quantity |-> quantity]

ore_in_bank == cond__item_qty_in_bank("copper_ore", 1)
wood_in_bank == cond__item_qty_in_bank("ash_wood", 1)

\* The task of every character is to hand in copper_ore; the lambdas of
\* TURN_IN_ITEM_TASK_ITEMS read the agent whose worker holds the event loop.
get_task_quantity_remaining(data) == data.task_total - data.task_progress

\* a resolver whose first answer is kept: fight_if_ore answers as it did
\* when the bank still held copper_ore
Resolve_cached(resolver, bd, br) ==
    CASE resolver = "fight_if_ore" -> fight
      [] resolver = "reserve_task_items" ->
            add_item_reservations(
                <<Entry("copper_ore", get_task_quantity_remaining(char_data[running]))>>)
      [] resolver = "task_trade" -> task_trade("copper_ore", 1)
      [] resolver = "update_task_reservation" ->
            update_item_reservations(<<Entry("copper_ore", -1)>>)

Resolve(resolver, bd, br) ==
    CASE resolver = "fight_if_ore" ->
            IF has_quantity_of_item_available(bd, br, "copper_ore", 1)
            THEN fight ELSE do_nothing
      [] resolver = "reserve_task_items" ->
            add_item_reservations(
                <<Entry("copper_ore", get_task_quantity_remaining(char_data[running]))>>)
      [] resolver = "task_trade" -> task_trade("copper_ore", 1)
      [] resolver = "update_task_reservation" ->
            update_item_reservations(<<Entry("copper_ore", -1)>>)

\* TURN_IN_ITEM_TASK_ITEMS, for a task of one item that is traded in one
\* piece; the deposit, the withdrawal and the move of each round are left out.
TurnInPlan ==
    group(<<DeferredPlanNode("reserve_task_items"),
            WHILE_(group(<<DeferredPlanNode("task_trade"),
                           DeferredPlanNode("update_task_reservation")>>),
                   NOT(TASK_COMPLETE))>>)

\* The expressions and control nodes whose construction is attempted: every
\* combination of operator, condition tag and number of children.
LogicalOperator == <<"None", "AND", "OR", "NOT">>
ExpressionCandidate(n) ==
    ActionConditionExpression(
        LogicalOperator[(n % 4) + 1],
        IF (n \div 4) % 2 = 1 THEN "FOREVER" ELSE "None",
        [k \in 1..(n \div 8) |-> FOREVER])
\* bit k of n decides whether the k-th optional field is given
Given(n, k, value) == IF (n \div (2 ^ k)) % 2 = 1 THEN <<value>> ELSE <<>>
ControlCandidate(n) ==
    LET m == n \div 12 IN
    ActionControlNode(
        ControlOperator[(n % 4) + 1],
        CASE (n \div 4) % 3 = 0 -> <<>>
          [] (n \div 4) % 3 = 1 -> << <<>> >>
          [] OTHER -> << << <<FOREVER, rest>> >> >>,
        Given(m, 0, rest), Given(m, 1, DO_WHILE(rest, FOREVER)), Given(m, 2, FOREVER),
        Given(m, 3, rest), Given(m, 4, FOREVER), Given(m, 5, rest), Given(m, 6, rest))
ControlScenarios == {[name |-> "control", n |-> n] : n \in 0..(12 * (2 ^ 7) - 1)}

ExpressionScenarios ==
    {[name |-> "expression", n |-> n] : n \in 0..(8 * (MaxChildren + 1) - 1)}

\* The conditions of the queued IFs: the leaves the planner uses, what the
\* factories NOT, AND and OR build from them, and one more level of the same
\* on top; no_condition is the None a node without condition carries.
no_condition == cond("None", "", 0)
ConditionParts ==
    <<ore_in_bank, FOREVER, NOT(wood_in_bank), OR(<<wood_in_bank, TASK_COMPLETE>>),
      AND(<<ore_in_bank, wood_in_bank, FOREVER>>)>>
ConditionCandidate(n) ==
    LET P == Len(ConditionParts)
        i == ((n \div 4) % P) + 1
        j == ((n \div (4 * P)) % P) + 1
    IN IF n >= 4 * P * P THEN no_condition
       ELSE CASE n % 4 = 0 -> ConditionParts[i]
              [] n % 4 = 1 -> AND(<<ConditionParts[i], ConditionParts[j]>>)
              [] n % 4 = 2 -> OR(<<ConditionParts[i], ConditionParts[j]>>)
              [] OTHER -> NOT(ConditionParts[i])
EvaluateScenarios ==
    LET P == Len(ConditionParts) IN
    {[name |-> "evaluate", n |-> n] :
        n \in {m \in 0..(4 * P * P) :
                 \/ m < 4 * P
                 \/ m = 4 * P * P
                 \/ m % 4 \in {1, 2} /\ m \div (4 * P) <= (m \div 4) % P}}

Scenarios ==
    {[name |-> nm, n |-> 0] :
        nm \in {"retry", "group", "if", "while", "do_while", "nested", "ledger",
                "misuse", "race", "turn_in", "outcome", "deposit_if", "register",
                "bank_update", "forever", "context", "deferred", "meta"}}
    \cup {[name |-> "try", n |-> k] : k \in 0..7}
    \cup {[name |-> "cancel", n |-> k] : k \in 0..3}
    \cup {[name |-> "goal", n |-> k] : k \in 0..1}
    \cup ExpressionScenarios \cup ControlScenarios \cup EvaluateScenarios

\* the runs of the specification with fairness: a task loop next to another
\* character, and the scenarios that wait, back off and loop
LiveScenarios ==
    {[name |-> nm, n |-> 0] : nm \in {"spin", "retry", "nested"}}
    \cup {[name |-> "try", n |-> 7], [name |-> "expression", n |-> 0],
          [name |-> "goal", n |-> 1]}

\* the runs in which a character is told to stop inside loops that never end
\* by their condition, next to the runs that take the other steps
AbortScenarios ==
    {[name |-> nm, n |-> 0] : nm \in {"abort", "stall", "nested"}}
    \cup {[name |-> "try", n |-> 7], [name |-> "expression", n |-> 0],
          [name |-> "goal", n |-> 1]}

ScChars(s) == IF s.name \in {"ledger", "race", "spin", "stall"} THEN {"a", "b"} ELSE {"a"}

\* A loop of the shape of COMPLETE_TASKS: DO_WHILE FOREVER over a group of
\* two IFs without fail_path, the first handing in a complete task.  When
\* no branch condition holds the body succeeds without a remote call.
TaskLoop ==
    DO_WHILE(group(<<IF_(<< <<TASK_COMPLETE, group(<<complete_task, get_task>>)>> >>, <<>>),
                     IF_(<< <<ore_in_bank, fight>> >>, <<>>)>>),
             FOREVER)

\* The check-then-reserve of COLLECT_THEN_CRAFT: when the bank has the
\* materials available, reserve them, withdraw them (the remote action) and
\* clear the reservation whatever the withdrawal did.  RaceQty is more than
\* half of what the bank holds.
RaceQty == MaxBank \div 2 + 1
RacePlan ==
    IF_(<< <<cond__item_qty_in_bank("copper_ore", RaceQty),
             group(<<add_item_reservations(<<Entry("copper_ore", RaceQty)>>),
                     TRY(rest, <<>>, <<>>,
                         <<clear_item_reservations(<<Entry("copper_ore", RaceQty)>>)>>)>>)>> >>,
        <<>>)

\* The plan of a gathering run: go to the resource (the map has one at the
\* target), gather, and bank everything once the bank holds at least 10
\* copper_ore.  The character starts with 12 copper_ore in its inventory and
\* the bank with 5.
DepositIfPlan ==
    group(<<move, gather,
            IF_(<< <<cond__item_qty_in_bank("copper_ore", 10), bank_all_items>> >>,
                <<do_nothing>>)>>)
Gatherer(quantity) == WithInventory(CharData(0, 1), [i \in {"copper_ore"} |-> quantity])
\* the character of the scenario cancel stands at (0, 0) or at (1, 0), with
\* an empty inventory or with one piece of ore
Stander(n) ==
    At(IF Bit(n, 1) THEN Gatherer(1) ELSE CharData(0, 1), IF Bit(n, 0) THEN 1 ELSE 0, 0)
InitCharacter(s) ==
    IF s.name = "deposit_if" THEN Gatherer(12)
    ELSE IF s.name = "cancel" THEN Stander(s.n)
    ELSE CharData(0, 1)

\* A counting loop over the context: it goes on until the counter n is at
\* the limit, and each pass adds one to n, notes n in seen and lowers the
\* limit to 1.  The limit of the loop test and the value noted are read
\* from the context when they are used.
ContextPlan ==
    group(<<set_context("n", Literal(0)), set_context("limit", Literal(2)),
            set_context("seen", Literal(0)),
            WHILE_(group(<<update_context("n", Literal(1)),
                           set_context("seen", ContextValue("n", "seen")),
                           set_context("limit", Literal(1))>>),
                   NOT(cond__context_value_equals("n", ContextValue("limit", "test"))))>>)

\* Loops whose condition always holds: one whose body never suspends, and a
\* WHILE inside a DO_WHILE whose body is a remote action.
SpinLoop == WHILE_(force_success, FOREVER)
RestLoops == DO_WHILE(WHILE_(rest, FOREVER), FOREVER)

\* A loop that reaches the same deferred node on every pass: the node turns
\* into fight when copper_ore is available in the bank and into do_nothing
\* otherwise, and the replies to fight and rest bring new bank snapshots.
DeferredLoop ==
    DO_WHILE(group(<<DeferredPlanNode("fight_if_ore"), rest>>), FOREVER)

\* actions that may find nothing to do, next to the same actions with
\* something to do
CancelMenu ==
    <<group(<<move_to(1, 0), move_to(1, 0), bank_all_items,
              bank_withdraw_item(<<Entry("copper_ore", 0), Entry("ash_wood", -1)>>),
              bank_withdraw_item(<<>>),
              bank_withdraw_item(<<Entry("copper_ore", 1), Entry("ash_wood", 0)>>)>>),
      group(<<bank_deposit_gold(0), bank_withdraw_gold(0), craft(0),
              bank_withdraw_gold(1), craft(1), equip_from_queue,
              set_context("equip_queue", Literal(<<"copper_dagger">>)),
              equip_from_queue, equip_from_queue>>)>>

Menu(s, c) ==
    CASE s.name = "retry" -> <<rest, bank_deposit_gold(0)>>
      [] s.name = "cancel" -> CancelMenu
      [] s.name = "goal" -> <<>>
      [] s.name = "group" -> <<group(<<rest, fight, complete_task>>), do_nothing>>
      [] s.name = "if" ->
            <<IF_(<< <<ore_in_bank, rest>>, <<wood_in_bank, fight>> >>, <<get_task>>),
              IF_(<< <<ore_in_bank, rest>>, <<wood_in_bank, fight>> >>, <<>>)>>
      [] s.name = "while" -> <<WHILE_(rest, ore_in_bank)>>
      [] s.name = "do_while" -> <<DO_WHILE(rest, ore_in_bank)>>
      [] s.name = "try" ->
            <<TRY(rest, Opt(Bit(s.n, 0), fight), Opt(Bit(s.n, 1), get_task),
                  Opt(Bit(s.n, 2), complete_task))>>
      [] s.name = "nested" ->
            <<DO_WHILE(
                group(<<IF_(<< <<NOT(ore_in_bank), WHILE_(rest, NOT(ore_in_bank))>> >>,
                            <<DeferredPlanNode("fight_if_ore")>>),
                        force_success>>),
                FOREVER)>>
      [] s.name = "ledger" ->
            IF c = "a"
            THEN <<group(<<add_item_reservations(<<Entry("copper_ore", 1),
                                                   Entry("ash_wood", 1)>>),
                           TRY(rest, <<>>, <<>>,
                               <<clear_item_reservations(<<Entry("copper_ore", 1),
                                                           Entry("ash_wood", 1)>>)>>)>>),
                   group(<<update_item_reservations(<<Entry("copper_ore", -1)>>),
                           fail_action>>)>>
            ELSE <<add_item_reservations(<<Entry("copper_ore", 1)>>)>>
      [] s.name \in {"expression", "control"} -> <<>>
      [] s.name = "outcome" -> <<group(<<rest, bank_deposit_gold(0), fight>>)>>
      [] s.name = "deposit_if" -> <<DepositIfPlan>>
      [] s.name = "register" -> <<rest, do_nothing>>
      [] s.name = "bank_update" ->
            <<add_item_reservations(<<Entry("copper_ore", 1), Entry("ash_wood", 1)>>),
              rest>>
      [] s.name = "forever" -> <<WHILE_(rest, FOREVER), DO_WHILE(rest, FOREVER)>>
      [] s.name = "context" -> <<ContextPlan>>
      [] s.name = "deferred" -> <<DeferredLoop>>
      [] s.name = "abort" -> <<RestLoops>>
      [] s.name = "stall" -> IF c = "a" THEN <<SpinLoop>> ELSE <<rest>>
      [] s.name = "meta" -> <<group(<<rest, force_success, force_fail>>), fail_action>>
      [] s.name = "evaluate" ->
            <<IF_(<< <<ConditionCandidate(s.n), force_success>> >>, <<>>),
              add_item_reservations(<<Entry("copper_ore", MaxBank)>>)>>
      [] s.name = "race" -> <<RacePlan>>
      [] s.name = "turn_in" -> <<TurnInPlan>>
      [] s.name = "spin" -> IF c = "a" THEN <<TaskLoop>> ELSE <<rest>>
      [] s.name = "misuse" ->
            <<add_item_reservations(<<Entry("copper_ore", 30)>>),
              add_item_reservations(<<Entry("copper_ore", 20)>>),
              clear_item_reservations(<<Entry("copper_ore", 0)>>),
              group(<<add_item_reservations(<<Entry("copper_ore", 30)>>),
                      update_item_reservations(<<Entry("copper_ore", -30)>>),
                      clear_item_reservations(<<Entry("copper_ore", 0)>>)>>),
              add_item_reservations(<<Entry("ash_wood", 20)>>)>>

ScDetails(s) ==
    IF s.name = "abort"
    THEN {"OK", "ON_COOLDOWN", "NO_TASK"}
    ELSE IF s.name = "retry"
    THEN {"OK", "NOT_FOUND", "ALREADY_AT_DESTINATION", "ON_COOLDOWN", "NO_TASK"}
    ELSE IF s.name = "outcome"
    THEN {"OK", "NOT_FOUND", "ALREADY_AT_DESTINATION", "ON_COOLDOWN"}
    ELSE {"OK", "NOT_FOUND"}

ScCooldowns(s) ==
    IF s.name \in {"retry", "meta"} THEN 0..MaxCooldown
    ELSE IF s.name = "abort" THEN {0, 1} ELSE {0}

\* the "bank" list of a successful reply; <<>> when the reply carries none
ScBanks(s) ==
    IF s.name = "bank_update"
    THEN {<<>>, <<Entry("copper_ore", MaxBank)>>, <<Entry("ash_wood", 0)>>,
          <<Entry("ash_wood", 1), Entry("copper_ore", 0)>>}
    ELSE IF s.name \in {"while", "do_while", "nested", "deferred"}
    THEN {<<>>} \cup {<<Entry("copper_ore", q)>> : q \in {0, MaxBank}}
    ELSE IF s.name = "goal"
    THEN {<<>>} \cup {<<Entry("copper_ore", q), Entry("ash_wood", w)>> :
                         q \in 0..MaxBank, w \in {0, MaxBank}}
    ELSE {<<>>}

\* the "character" dict of a successful reply; <<>> when the reply carries none
ScCharacters(s) ==
    IF s.name = "turn_in" THEN {<<>>} \cup {<<CharData(p, 1)>> : p \in 0..1}
    ELSE IF s.name = "deposit_if" THEN {<<>>, <<Gatherer(13)>>}
    ELSE IF s.name = "cancel" THEN {<<>>, <<At(CharData(0, 1), 1, 0)>>}
    ELSE IF s.name = "goal" THEN {<<>>, <<Gatherer(1)>>}
    ELSE {<<>>}

InitBanks(s) ==
    IF s.name = "deposit_if"
    THEN {[i \in {"copper_ore"} |-> 5]}
    ELSE IF s.name = "evaluate"
    THEN {[i \in Items |-> IF i = "copper_ore" THEN MaxBank ELSE q] : q \in {0, MaxBank}}
    ELSE IF s.name = "if"
    THEN UNION {[S -> {0, MaxBank}] : S \in SUBSET Items}
    ELSE IF s.name \in {"while", "do_while", "nested"}
    THEN {[i \in {"copper_ore"} |-> q] : q \in {0, MaxBank}}
    ELSE IF s.name = "spin"
    THEN {[i \in {"copper_ore"} |-> 0]}
    ELSE IF s.name = "misuse"
    THEN {[i \in S |-> 100] : S \in {{}, {"copper_ore"}}}
    ELSE IF s.name = "goal"
    THEN {[i \in Items |-> 0]}
    ELSE {[i \in Items |-> MaxBank]}

(***************************************************************************)
(* A worker's activations of _process_node.  hist, evals, iters, truth,    *)
(* idx, calls and waited are history: what this activation has done so     *)
(* far.                                                                    *)
(***************************************************************************)
Frame(node) ==
    [node |-> node, pc |-> "enter", i |-> 0, result |-> TRUE, retry_count |-> 0,
     calls |-> 0, hist |-> <<>>, evals |-> 0, iters |-> 0, truth |-> <<>>, idx |-> 0,
     waited |-> 0]

NoFrame == [Frame(do_nothing) EXCEPT !.pc = "none"]
NoCall ==
    [st |-> "none", detail |-> "", cooldown |-> 0, bank |-> <<>>, character |-> <<>>]
Pending == [NoCall EXCEPT !.st = "pending"]
NoAbort == [at |-> "none", skipped |-> FALSE, try_body |-> 0]
NoLog == [msg |-> "none", released |-> {}]
Event(slot, val) == [slot |-> slot, val |-> val]

Top(c) == stack[c][Len(stack[c])]
Below(c) == SubSeq(stack[c], 1, Len(stack[c]) - 1)
Inc(n) == Min(n + 1, Sat + 1)

\* the goals of data/shopping_list.json
PantryGoal(item, desired_quantity, replenish_threshold) ==
    [item |-> item, desired_quantity |-> desired_quantity,
     replenish_threshold |-> replenish_threshold]
ProgressionGoal(item, quantity) == [item |-> item, quantity |-> quantity]
pantry_goals == <<PantryGoal("copper_ore", MaxBank, 1), PantryGoal("ash_wood", 1, 1)>>
progression_goals == <<ProgressionGoal("ash_wood", MaxBank)>>

InitOf(scenarios) ==
    /\ scenario \in scenarios
    /\ agents = {}
    /\ queues = EmptyDict
    /\ worker_tasks = EmptyDict
    /\ running = "none"
    /\ stack = [c \in Chars |-> <<>>]
    /\ ret = [c \in Chars |-> [val |-> TRUE, frame |-> NoFrame]]
    /\ abort_actions = [c \in Chars |-> FALSE]
    /\ char_data = [c \in Chars |-> InitCharacter(scenario)]
    /\ remaining_cooldown \in [Chars -> ScCooldowns(scenario)]
    /\ \A c \in Chars \ ScChars(scenario) : remaining_cooldown[c] = 0
    /\ sleep_remaining = [c \in Chars |-> 0]
    /\ api_result = [c \in Chars |-> NoCall]
    /\ bank_data \in InitBanks(scenario)
    /\ bank_reservations = EmptyDict
    /\ log = [c \in Chars |-> NoLog]
    /\ abort_info = [c \in Chars |-> NoAbort]
    /\ registrations = [c \in Chars |-> 0]
    /\ context = [c \in Chars |-> EmptyDict]
    /\ resolved = [c \in Chars |-> EmptyDict]
    /\ action_mode = [c \in Chars |-> "MANUAL"]
    /\ use_replenish_threshold = [k \in 1..Len(pantry_goals) |-> FALSE]
    /\ tracked = EmptyDict
    /\ pantry_seen = [k \in 1..Len(pantry_goals) |-> "never"]

Init == InitOf(Scenarios)
LiveInit == InitOf(LiveScenarios)
AbortInit == InitOf(AbortScenarios)

(***************************************************************************)
(* The command line (src/src/cli.py), the server and the clock.            *)
(***************************************************************************)
\* the command line registers every character once when it starts; in the
\* scenario register a name is registered again later
registers_again(c) == c \in agents => scenario.name = "register" /\ registrations[c] <= Sat

add_character_replaces(c) ==
    /\ running = "none"
    /\ c \in ScChars(scenario)
    /\ registers_again(c)
    /\ registrations' = [registrations EXCEPT ![c] = @ + 1]
    /\ agents' = agents \cup {c}
    /\ queues' = Put(queues, c, <<>>)
    /\ worker_tasks' = Put(worker_tasks, c, "start")
    /\ UNCHANGED <<scenario, pantry_seen, action_mode, use_replenish_threshold, tracked,
                   context, resolved, char_data, running, stack, ret,
                   abort_actions, remaining_cooldown, sleep_remaining, api_result,
                   bank_data, bank_reservations, log, abort_info>>
add_character(c) ==
    /\ running = "none"
    /\ c \in ScChars(scenario)
    /\ registers_again(c)
    /\ registrations' = [registrations EXCEPT ![c] = @ + 1]
    /\ IF c \in agents
       THEN UNCHANGED <<agents, queues, worker_tasks>>
       ELSE /\ agents' = agents \cup {c}
            /\ queues' = Put(queues, c, <<>>)
            /\ worker_tasks' = Put(worker_tasks, c, "start")
    /\ UNCHANGED <<scenario, pantry_seen, action_mode, use_replenish_threshold, tracked,
                   context, resolved, char_data, running, stack, ret,
                   abort_actions, remaining_cooldown, sleep_remaining, api_result,
                   bank_data, bank_reservations, log, abort_info>>

queue_action_node(c, k) ==
    /\ running = "none"
    /\ c \in agents
    /\ k \in 1..Len(Menu(scenario, c))
    /\ c \in DOMAIN queues
    /\ Len(queues[c]) < MaxQueue
    /\ queues' = [queues EXCEPT ![c] = Append(@, Menu(scenario, c)[k])]
    /\ UNCHANGED <<scenario, pantry_seen, action_mode, use_replenish_threshold, tracked,
                   registrations, context, resolved, char_data,
                   agents, worker_tasks, running, stack, ret, abort_actions,
                   remaining_cooldown, sleep_remaining, api_result, bank_data,
                   bank_reservations, log, abort_info>>

\* what the suspended worker of c is waiting for
Awaiting(c) ==
    IF stack[c] = <<>> THEN "none"
    ELSE CASE Top(c).pc = "cooldown_sleep" -> "cooldown"
           [] Top(c).pc = "backoff" -> "backoff"
           [] Top(c).pc = "remote" -> "remote"
           [] OTHER -> "none"

\* history: the place on c's stack of the innermost TRY whose body is being
\* processed, 0 when there is none
TryBody(c) ==
    LET K == {k \in 1..Len(stack[c]) :
                /\ stack[c][k].node.kind = "ActionControlNode"
                /\ stack[c][k].node.control_operator = "TRY"
                /\ stack[c][k].pc = "try_node"}
    IN IF K = {} THEN 0 ELSE CHOOSE k \in K : \A j \in K : j <= k

set_abort_actions(c) ==
    /\ running = "none"
    /\ c \in agents
    /\ abort_actions' = [abort_actions EXCEPT ![c] = TRUE]
    /\ abort_info' =
          IF worker_tasks[c] = "run" /\ ~abort_actions[c]
          THEN [abort_info EXCEPT ![c].at = Awaiting(c), ![c].try_body = TryBody(c)]
          ELSE abort_info
    /\ UNCHANGED <<scenario, pantry_seen, action_mode, use_replenish_threshold, tracked,
                   registrations, context, resolved, char_data,
                   agents, queues, worker_tasks, running, stack, ret,
                   remaining_cooldown, sleep_remaining, api_result, bank_data,
                   bank_reservations, log>>

RemoteReply(c) ==
    /\ running = "none"
    /\ api_result[c].st = "pending"
    /\ \E detail \in ScDetails(scenario), cd \in ScCooldowns(scenario),
          bank \in ScBanks(scenario), character \in ScCharacters(scenario) :
          /\ detail # "OK" => cd = 0 /\ bank = <<>> /\ character = <<>>
          /\ api_result' = [api_result EXCEPT ![c] =
                [st |-> "done", detail |-> detail, cooldown |-> cd, bank |-> bank,
                 character |-> character]]
    /\ UNCHANGED <<scenario, pantry_seen, action_mode, use_replenish_threshold, tracked,
                   registrations, context, resolved, char_data,
                   agents, queues, worker_tasks, running, stack, ret,
                   abort_actions, remaining_cooldown, sleep_remaining,
                   bank_data, bank_reservations, log, abort_info>>

Tick ==
    /\ running = "none"
    /\ \E c \in Chars : remaining_cooldown[c] > 0 \/ sleep_remaining[c] > 0
    /\ remaining_cooldown' = [c \in Chars |-> Max(0, remaining_cooldown[c] - 1)]
    /\ sleep_remaining' = [c \in Chars |-> Max(0, sleep_remaining[c] - 1)]
    /\ UNCHANGED <<scenario, pantry_seen, action_mode, use_replenish_threshold, tracked,
                   registrations, context, resolved, char_data,
                   agents, queues, worker_tasks, running, stack, ret,
                   abort_actions, api_result, bank_data, bank_reservations,
                   log, abort_info>>

\* A caller constructs the expression or the control node of the run; the
\* outcome is history.
construct(c) ==
    /\ running = "none"
    /\ scenario.name \in {"expression", "control"}
    /\ c \in ScChars(scenario)
    /\ log[c] = NoLog
    /\ log' = [log EXCEPT ![c] =
                 [msg |-> IF IF scenario.name = "expression"
                             THEN expression_post_init(ExpressionCandidate(scenario.n))
                             ELSE control_post_init(ControlCandidate(scenario.n))
                          THEN "constructed" ELSE "AssertionError",
                  released |-> {}]]
    /\ UNCHANGED <<scenario, pantry_seen, action_mode, use_replenish_threshold, tracked,
                   registrations, context, resolved, char_data,
                   agents, queues, worker_tasks, running, stack, ret,
                   abort_actions, remaining_cooldown, sleep_remaining,
                   api_result, bank_data, bank_reservations, abort_info>>

(***************************************************************************)
(* The goal coordinator (src/src/goalcoordinator.py).  The goals are what  *)
(* data/shopping_list.json holds; the planner is a collaborator that turns *)
(* an intent into a plan node, here an action that carries the intent.     *)
(***************************************************************************)
AgentMode == {"MANUAL", "AUTO_GOAL_LEADER", "AUTO_GOAL_SUPPORT"}

\* CharacterAgent.set_mode_manual, set_mode_leader and set_mode_support.  No
\* command of the command line calls them: the mode of a character is set
\* once, in the scenario goal.
set_mode(c, mode) ==
    /\ running = "none"
    /\ scenario.name = "goal"
    /\ c \in agents
    /\ action_mode[c] = "MANUAL"
    /\ mode # "MANUAL"
    /\ action_mode' = [action_mode EXCEPT ![c] = mode]
    /\ UNCHANGED <<scenario, pantry_seen, use_replenish_threshold, tracked, registrations, context,
                   resolved, char_data, agents, queues, worker_tasks, running, stack,
                   ret, abort_actions, remaining_cooldown, sleep_remaining, api_result,
                   bank_data, bank_reservations, log, abort_info>>

\* check_in_character, called when _process_node is back from an action
\* (scheduler.py:114): the tracker of c holds the inventory of char_data
check_in_character(c) ==
    tracked' = IF stack'[c] = Below(c)
               THEN Put(tracked, c, char_data'[c].inventory)
               ELSE tracked

get_amount_of_item_in_world(item) ==
    get_amount_of_item_in_bank(bank_data, bank_reservations, item)
        + SumOver([t \in DOMAIN tracked |->
                      IF item \in DOMAIN tracked[t] THEN tracked[t][item] ELSE 0],
                  DOMAIN tracked)

\* the planner's result for an intent: a plan node, of which the model keeps
\* the intention and the item it was asked for
plan(intention, item, quantity) ==
    [kind |-> "Action", type |-> "GATHER", items |-> <<>>, quantity |-> 0,
     intention |-> intention, item |-> item]

\* WorldState.character_meets_crafting_conditions: the character's skill
\* level against the level of the recipe, which the run fixes
character_meets_crafting_conditions(c, item) == Bit(scenario.n, 0)

get_next_backup_goal == plan("GATHER_RESOURCES", "copper_ore", 0)

get_next_progression_goal(c, primary_worker) ==
    LET unmet == {k \in 1..Len(progression_goals) :
                    get_amount_of_item_in_world(progression_goals[k].item)
                        < progression_goals[k].quantity}
    IN IF unmet = {} THEN get_next_backup_goal
       ELSE LET goal == progression_goals[CHOOSE k \in unmet : \A j \in unmet : k <= j]
                current_quantity == get_amount_of_item_in_world(goal.item)
            IN IF character_meets_crafting_conditions(c, goal.item)
               THEN plan(IF primary_worker THEN "CRAFT_OR_GATHER_INTERMEDIARIES"
                                           ELSE "GATHER_MATERIALS_FOR_CRAFT",
                         goal.item, goal.quantity - current_quantity)
               ELSE get_next_backup_goal

\* the loop over the pantry goals from goal k on; [flags, node]
\* a coordinator without the threshold: it plans for the first goal below
\* its desired quantity
pantry_without_threshold(c, k, flags) ==
    LET low == {j \in 1..Len(pantry_goals) :
                  get_amount_of_item_in_world(pantry_goals[j].item)
                      < pantry_goals[j].desired_quantity}
    IN [flags |-> flags,
        node |-> IF low = {} THEN get_next_progression_goal(c, FALSE)
                 ELSE plan("CRAFT_OR_GATHER_INTERMEDIARIES",
                           pantry_goals[CHOOSE j \in low : \A i \in low : j <= i].item, 0)]
RECURSIVE get_next_pantry_goal(_, _, _)
get_next_pantry_goal(c, k, flags) ==
    IF k > Len(pantry_goals)
    THEN [flags |-> flags, node |-> get_next_progression_goal(c, FALSE)]
    ELSE LET goal == pantry_goals[k]
             current_quantity == get_amount_of_item_in_world(goal.item)
         IN IF current_quantity >= goal.desired_quantity
            THEN get_next_pantry_goal(c, k + 1, [flags EXCEPT ![k] = TRUE])
            ELSE IF flags[k] /\ current_quantity >= goal.replenish_threshold
            THEN get_next_pantry_goal(c, k + 1, flags)
            ELSE [flags |-> [flags EXCEPT ![k] = FALSE],
                  node |-> plan("CRAFT_OR_GATHER_INTERMEDIARIES", goal.item,
                                goal.desired_quantity - current_quantity)]

get_next_goal(c, goal_type) ==
    IF goal_type = "progression"
    THEN [flags |-> use_replenish_threshold, node |-> get_next_progression_goal(c, TRUE)]
    ELSE get_next_pantry_goal(c, 1, use_replenish_threshold)

\* queue_action_node as the coordinator calls it: the node goes to the end
\* of the queue of a character that has one
queue_dropped(qs, character_name, node) == qs
queue_appended(qs, character_name, node) ==
    IF character_name \in DOMAIN qs
    THEN [qs EXCEPT ![character_name] = Append(@, node)]
    ELSE qs

(***************************************************************************)
(* ActionScheduler._worker.                                                *)
(***************************************************************************)
\* an exception that ends every worker's task
Raise_ends_all(c) ==
    /\ worker_tasks' = [d \in DOMAIN worker_tasks |-> "crashed"]
    /\ UNCHANGED <<stack, ret>>
Raise(c) ==
    /\ worker_tasks' = [worker_tasks EXCEPT ![c] = "crashed"]
    /\ UNCHANGED <<stack, ret>>

AtLoopTop(c) ==
    /\ c \in DOMAIN worker_tasks
    /\ \/ worker_tasks[c] = "start" /\ running = "none"
       \/ worker_tasks[c] = "idle" /\ sleep_remaining[c] = 0 /\ running = "none"
       \/ worker_tasks[c] = "loop" /\ running = c

WorkerIdle(c) ==
    /\ AtLoopTop(c)
    /\ queues[c] = <<>>
    /\ action_mode[c] = "MANUAL"
    /\ worker_tasks' = [worker_tasks EXCEPT ![c] = "idle"]
    /\ sleep_remaining' = [sleep_remaining EXCEPT ![c] = IdleSleep]
    /\ running' = "none"
    /\ UNCHANGED <<scenario, pantry_seen, action_mode, use_replenish_threshold, tracked,
                   registrations, context, resolved, char_data,
                   agents, queues, stack, ret, abort_actions,
                   remaining_cooldown, api_result, bank_data,
                   bank_reservations, log, abort_info>>

\* deque.popleft: the node taken and the queue left
pop(queue) == [node |-> queue[Len(queue)], queue |-> SubSeq(queue, 1, Len(queue) - 1)]
popleft(queue) == [node |-> Head(queue), queue |-> Tail(queue)]

\* a worker that clears the abort flag when it takes a node
WorkerPop_unsets(c) ==
    /\ AtLoopTop(c)
    /\ queues[c] # <<>>
    /\ queues' = [queues EXCEPT ![c] = popleft(@).queue]
    /\ stack' = [stack EXCEPT ![c] = <<Frame(popleft(queues[c]).node)>>]
    /\ worker_tasks' = [worker_tasks EXCEPT ![c] = "run"]
    /\ running' = c
    /\ abort_info' = [abort_info EXCEPT ![c] = NoAbort]
    /\ resolved' = [resolved EXCEPT ![c] = EmptyDict]
    /\ abort_actions' = [abort_actions EXCEPT ![c] = FALSE]
    /\ UNCHANGED <<scenario, pantry_seen, action_mode, use_replenish_threshold, tracked,
                   registrations, context, char_data, agents, ret,
                   remaining_cooldown, sleep_remaining, api_result,
                   bank_data, bank_reservations, log>>
WorkerPop(c) ==
    /\ AtLoopTop(c)
    /\ queues[c] # <<>>
    /\ queues' = [queues EXCEPT ![c] = popleft(@).queue]
    /\ stack' = [stack EXCEPT ![c] = <<Frame(popleft(queues[c]).node)>>]
    /\ worker_tasks' = [worker_tasks EXCEPT ![c] = "run"]
    /\ running' = c
    /\ abort_info' = [abort_info EXCEPT ![c] = NoAbort]
    /\ resolved' = [resolved EXCEPT ![c] = EmptyDict]
    /\ UNCHANGED <<scenario, pantry_seen, action_mode, use_replenish_threshold, tracked,
                   registrations, context, char_data, agents, ret,
                   abort_actions, remaining_cooldown, sleep_remaining, api_result,
                   bank_data, bank_reservations, log>>

\* history: what the coordinator has seen of pantry goal k by the quantities
\* in the world alone.  A goal is passed over when its quantity is at the
\* desired quantity, or when it was seen there and is still at the
\* threshold; the goals after the first one not passed over are not looked
\* at.  "met": seen at the desired quantity, and not below the threshold
\* since; "low": seen below the threshold after that; "never": neither yet.
PassedOver(k) ==
    LET goal == pantry_goals[k]
        q == get_amount_of_item_in_world(goal.item)
    IN \/ q >= goal.desired_quantity
       \/ pantry_seen[k] = "met" /\ q >= goal.replenish_threshold
LookedAt(k) == \A j \in 1..(k - 1) : PassedOver(j)
Seen(k) ==
    LET goal == pantry_goals[k]
        q == get_amount_of_item_in_world(goal.item)
    IN IF ~LookedAt(k) THEN pantry_seen[k]
       ELSE IF q >= goal.desired_quantity THEN "met"
       ELSE IF pantry_seen[k] = "met" /\ q < goal.replenish_threshold THEN "low"
       ELSE pantry_seen[k]

\* the queue is empty in an autonomous mode: the coordinator queues the
\* next goal's plan, and the worker goes on to the popleft and the node.  A
\* popleft of an empty deque raises IndexError.
WorkerGoal(c) ==
    /\ AtLoopTop(c)
    /\ queues[c] = <<>>
    /\ action_mode[c] # "MANUAL"
    /\ LET r == get_next_goal(c, IF action_mode[c] = "AUTO_GOAL_LEADER"
                                 THEN "progression" ELSE "pantry")
           qs == queue_appended(queues, c, r.node)
       IN /\ use_replenish_threshold' = r.flags
          /\ IF qs[c] = <<>>
             THEN /\ Raise(c) /\ running' = "none"
                  /\ queues' = qs
                  /\ UNCHANGED <<abort_info, resolved>>
             ELSE /\ queues' = [qs EXCEPT ![c] = popleft(@).queue]
                  /\ stack' = [stack EXCEPT ![c] = <<Frame(popleft(qs[c]).node)>>]
                  /\ worker_tasks' = [worker_tasks EXCEPT ![c] = "run"]
                  /\ running' = c
                  /\ abort_info' = [abort_info EXCEPT ![c] = NoAbort]
                  /\ resolved' = [resolved EXCEPT ![c] = EmptyDict]
                  /\ UNCHANGED ret
    /\ pantry_seen' = IF action_mode[c] = "AUTO_GOAL_SUPPORT"
                      THEN [k \in 1..Len(pantry_goals) |-> Seen(k)]
                      ELSE pantry_seen
    /\ UNCHANGED <<scenario, action_mode, tracked, registrations, context, char_data,
                   agents, abort_actions, remaining_cooldown, sleep_remaining,
                   api_result, bank_data, bank_reservations, log>>

\* CharacterAgent.unset_abort_actions
abort_left_set(flags, c) == flags
unset_abort_actions(flags, c) == [flags EXCEPT ![c] = FALSE]

\* a worker that drops what is queued when a node returned failure
WorkerFinish_flushes(c) ==
    /\ running = c
    /\ worker_tasks[c] = "run"
    /\ stack[c] = <<>>
    /\ IF abort_actions[c]
       THEN /\ bank_reservations' = clear_bank_reservation(bank_reservations, c, "").br
            /\ log' = [log EXCEPT ![c] =
                          [msg |-> "aborted", released |-> Holds(bank_reservations, c)]]
            /\ abort_actions' = [abort_actions EXCEPT ![c] = FALSE]
            /\ UNCHANGED queues
       ELSE /\ log' = [log EXCEPT ![c] = [msg |-> "finished", released |-> {}]]
            /\ queues' = IF ret[c].val THEN queues ELSE [queues EXCEPT ![c] = <<>>]
            /\ UNCHANGED <<bank_reservations, abort_actions>>
    /\ worker_tasks' = [worker_tasks EXCEPT ![c] = "loop"]
    /\ UNCHANGED <<scenario, pantry_seen, action_mode, use_replenish_threshold, tracked,
                   registrations, context, resolved, char_data,
                   agents, running, stack, ret, remaining_cooldown,
                   sleep_remaining, api_result, bank_data, abort_info>>
WorkerFinish(c) ==
    /\ running = c
    /\ worker_tasks[c] = "run"
    /\ stack[c] = <<>>
    /\ IF abort_actions[c]
       THEN /\ bank_reservations' = clear_bank_reservation(bank_reservations, c, "").br
            /\ log' = [log EXCEPT ![c] =
                          [msg |-> "aborted", released |-> Holds(bank_reservations, c)]]
            /\ abort_actions' = unset_abort_actions(abort_actions, c)
       ELSE /\ log' = [log EXCEPT ![c] = [msg |-> "finished", released |-> {}]]
            /\ UNCHANGED <<bank_reservations, abort_actions>>
    /\ worker_tasks' = [worker_tasks EXCEPT ![c] = "loop"]
    /\ UNCHANGED <<scenario, pantry_seen, action_mode, use_replenish_threshold, tracked,
                   registrations, context, resolved, char_data,
                   agents, queues, running, stack, ret, remaining_cooldown,
                   sleep_remaining, api_result, bank_data, abort_info>>

(***************************************************************************)
(* The executor.  A step of the activation on top of the worker's stack:   *)
(* Continue stays in it, Call enters a child, Return hands a value to the  *)
(* caller, Raise ends the worker's task with an exception.                 *)
(***************************************************************************)
Sync(c) ==
    /\ running = c
    /\ c \in DOMAIN worker_tasks
    /\ worker_tasks[c] = "run"
    /\ stack[c] # <<>>

Resumes(c, pc) ==
    /\ running = "none"
    /\ c \in DOMAIN worker_tasks
    /\ worker_tasks[c] = "run"
    /\ stack[c] # <<>>
    /\ Top(c).pc = pc

Continue(c, f) ==
    /\ stack' = [stack EXCEPT ![c] = Append(Below(c), f)]
    /\ ret' = ret
    /\ worker_tasks' = worker_tasks

Call(c, f, child) ==
    /\ stack' = [stack EXCEPT ![c] = Append(Append(Below(c), f), Frame(child))]
    /\ ret' = ret
    /\ worker_tasks' = worker_tasks

Return(c, f, val) ==
    /\ stack' = [stack EXCEPT ![c] = Below(c)]
    /\ ret' = [ret EXCEPT ![c] = [val |-> val, frame |-> f]]
    /\ worker_tasks' = worker_tasks

Skipped(c) == abort_info' = [abort_info EXCEPT ![c].skipped = TRUE]

\* _process_node, lines 107-109
node_abort_unchecked(c) == FALSE
node_abort_check(c) == abort_actions[c]

\* every action goes the way of a character action
NodePc_all_wait(node) ==
    CASE node.kind = "Action" -> "cooldown"
      [] node.kind = "ActionGroup" -> "group"
      [] node.kind = "ActionControlNode" /\ node.control_operator = "IF" -> "if"
      [] node.kind = "ActionControlNode" /\ node.control_operator = "WHILE" -> "while"
      [] node.kind = "ActionControlNode" /\ node.control_operator = "DO_WHILE" ->
            "do_while"
      [] node.kind = "ActionControlNode" /\ node.control_operator = "TRY" -> "try"
      [] node.kind = "DeferredPlanNode" -> "deferred"
      [] OTHER -> "raise"
NodePc(node) ==
    CASE node.kind = "Action" /\ node.type \in CharacterAction -> "cooldown"
      [] node.kind = "Action" /\ node.type \in MetaAction -> "meta"
      [] node.kind = "ActionGroup" -> "group"
      [] node.kind = "ActionControlNode" /\ node.control_operator = "IF" -> "if"
      [] node.kind = "ActionControlNode" /\ node.control_operator = "WHILE" -> "while"
      [] node.kind = "ActionControlNode" /\ node.control_operator = "DO_WHILE" ->
            "do_while"
      [] node.kind = "ActionControlNode" /\ node.control_operator = "TRY" -> "try"
      [] node.kind = "DeferredPlanNode" -> "deferred"
      [] OTHER -> "raise"

\* _process_single_action, lines 130-133: the action has a ContextValue
HasDeferred(node) ==
    /\ node.kind = "Action"
    /\ node.type \in {"SET_CONTEXT", "UPDATE_CONTEXT"}
    /\ node.value.kind = "ContextValue"

process_node(c) ==
    /\ Sync(c)
    /\ Top(c).pc = "enter"
    /\ IF node_abort_check(c)
       THEN /\ Return(c, Top(c), FALSE) /\ Skipped(c) /\ running' = running
            /\ UNCHANGED resolved
       ELSE IF NodePc(Top(c).node) = "raise"
       THEN Raise(c) /\ running' = "none" /\ UNCHANGED <<abort_info, resolved>>
       ELSE /\ Continue(c, [Top(c) EXCEPT !.pc = NodePc(Top(c).node)])
            /\ resolved' =
                  IF HasDeferred(Top(c).node)
                  THEN [resolved EXCEPT ![c] =
                          Put(@, Top(c).node.value, params_get(c, Top(c).node.value))]
                  ELSE resolved
            /\ UNCHANGED <<running, abort_info>>
    /\ UNCHANGED <<scenario, pantry_seen, action_mode, use_replenish_threshold, tracked,
                   registrations, context, char_data, agents, queues,
                   abort_actions, remaining_cooldown, sleep_remaining, api_result,
                   bank_data, bank_reservations, log>>

(***************************************************************************)
(* _process_single_character_action.                                       *)
(***************************************************************************)
\* line 148: the time to sleep before the action
cooldown_skipped(c) == 0
cooldown_wait(c) == Max(0, remaining_cooldown[c])

\* lines 153-155
abort_unchecked(c) == FALSE
action_abort_check(c) == abort_actions[c]

\* lines 170-171
retry_one_more(retry_count) == retry_count > retry_max
retry_exhausted(retry_count) == retry_count >= retry_max

\* lines 160-190: the match on the outcome
Outcome_continue_fails(c, f, outcome) ==
    CASE outcome \in {"SUCCESS", "CANCEL"} ->
            Return(c, f, TRUE) /\ running' = c /\ UNCHANGED sleep_remaining
      [] outcome \in {"FAIL", "FAIL_CONTINUE"} ->
            Return(c, f, FALSE) /\ running' = c /\ UNCHANGED sleep_remaining
      [] outcome = "FAIL_RETRY" ->
            LET g == [f EXCEPT !.retry_count = @ + 1] IN
            IF retry_exhausted(g.retry_count)
            THEN Return(c, g, FALSE) /\ running' = c /\ UNCHANGED sleep_remaining
            ELSE /\ Continue(c, [g EXCEPT !.pc = "backoff"])
                 /\ sleep_remaining' = [sleep_remaining EXCEPT ![c] = RetrySleep]
                 /\ running' = "none"
      [] OTHER -> Raise(c) /\ running' = "none" /\ UNCHANGED sleep_remaining
Outcome(c, f, outcome) ==
    CASE outcome \in {"SUCCESS", "FAIL_CONTINUE", "CANCEL"} ->
            Return(c, f, TRUE) /\ running' = c /\ UNCHANGED sleep_remaining
      [] outcome = "FAIL" ->
            Return(c, f, FALSE) /\ running' = c /\ UNCHANGED sleep_remaining
      [] outcome = "FAIL_RETRY" ->
            LET g == [f EXCEPT !.retry_count = @ + 1] IN
            IF retry_exhausted(g.retry_count)
            THEN Return(c, g, FALSE) /\ running' = c /\ UNCHANGED sleep_remaining
            ELSE /\ Continue(c, [g EXCEPT !.pc = "backoff"])
                 /\ sleep_remaining' = [sleep_remaining EXCEPT ![c] = RetrySleep]
                 /\ running' = "none"
      [] OTHER -> Raise(c) /\ running' = "none" /\ UNCHANGED sleep_remaining

CooldownWait(c) ==
    /\ Sync(c)
    /\ Top(c).pc = "cooldown"
    /\ LET remaining == cooldown_wait(c) IN
       IF remaining > 0
       THEN /\ sleep_remaining' = [sleep_remaining EXCEPT ![c] = remaining]
            /\ Continue(c, [Top(c) EXCEPT !.pc = "cooldown_sleep", !.waited = remaining])
            /\ running' = "none"
       ELSE /\ Continue(c, [Top(c) EXCEPT !.pc = "perform"])
            /\ UNCHANGED <<sleep_remaining, running>>
    /\ UNCHANGED <<scenario, pantry_seen, action_mode, use_replenish_threshold, tracked,
                   registrations, context, resolved, char_data,
                   agents, queues, abort_actions, remaining_cooldown,
                   api_result, bank_data, bank_reservations, log, abort_info>>

CooldownWake(c) ==
    /\ Resumes(c, "cooldown_sleep")
    /\ sleep_remaining[c] = 0
    /\ Continue(c, [Top(c) EXCEPT !.pc = "perform"])
    /\ running' = c
    /\ UNCHANGED <<scenario, pantry_seen, action_mode, use_replenish_threshold, tracked,
                   registrations, context, resolved, char_data,
                   agents, queues, abort_actions, remaining_cooldown,
                   sleep_remaining, api_result, bank_data, bank_reservations,
                   log, abort_info>>

\* the abort check, then agent.perform up to the request
Perform(c) ==
    /\ Sync(c)
    /\ Top(c).pc = "perform"
    /\ IF action_abort_check(c)
       THEN /\ Return(c, Top(c), FALSE) /\ Skipped(c)
            /\ UNCHANGED <<running, sleep_remaining, api_result, context>>
       ELSE IF perform_local(Top(c).node) # ""
       THEN /\ Outcome(c, Top(c), perform_local(Top(c).node))
            /\ UNCHANGED <<api_result, abort_info, context>>
       ELSE /\ context' = [context EXCEPT ![c] = perform_context(c, Top(c).node)]
            /\ api_result' = [api_result EXCEPT ![c] = Pending]
            /\ Continue(c, [Top(c) EXCEPT !.pc = "remote", !.calls = @ + 1])
            /\ running' = "none"
            /\ UNCHANGED <<sleep_remaining, abort_info>>
    /\ UNCHANGED <<scenario, pantry_seen, action_mode, use_replenish_threshold,
                   registrations, resolved, char_data,
                   agents, queues, abort_actions, remaining_cooldown,
                   bank_data, bank_reservations, log>>
    /\ check_in_character(c)

\* agent.perform from the reply on, then the match on the outcome
PerformResume(c) ==
    /\ Resumes(c, "remote")
    /\ api_result[c].st = "done"
    /\ LET r == api_result[c]
           outcome == perform_outcome(r.detail)
       IN /\ IF outcome = "SUCCESS"
             THEN /\ char_data' = IF r.character # <<>>
                                  THEN [char_data EXCEPT ![c] = r.character[1]]
                                  ELSE char_data
                  /\ remaining_cooldown' = [remaining_cooldown EXCEPT ![c] = r.cooldown]
                  /\ bank_data' = IF r.bank # <<>>
                                  THEN update_bank_data(r.bank, EmptyDict)
                                  ELSE bank_data
             ELSE UNCHANGED <<char_data, remaining_cooldown, bank_data>>
          /\ Outcome(c, Top(c), outcome)
    /\ api_result' = [api_result EXCEPT ![c] = NoCall]
    /\ UNCHANGED <<scenario, pantry_seen, action_mode, use_replenish_threshold,
                   registrations, context, resolved, agents, queues,
                   abort_actions, bank_reservations, log, abort_info>>
    /\ check_in_character(c)

BackoffWake(c) ==
    /\ Resumes(c, "backoff")
    /\ sleep_remaining[c] = 0
    /\ Continue(c, [Top(c) EXCEPT !.pc = "cooldown"])
    /\ running' = c
    /\ UNCHANGED <<scenario, pantry_seen, action_mode, use_replenish_threshold, tracked,
                   registrations, context, resolved, char_data,
                   agents, queues, abort_actions, remaining_cooldown,
                   sleep_remaining, api_result, bank_data, bank_reservations,
                   log, abort_info>>

(***************************************************************************)
(* _process_single_meta_action.                                            *)
(***************************************************************************)
process_single_meta_action(c) ==
    /\ Sync(c)
    /\ Top(c).pc = "meta"
    /\ IF abort_actions[c]
       THEN /\ Return(c, Top(c), FALSE) /\ Skipped(c)
            /\ UNCHANGED <<running, bank_reservations, context>>
       ELSE LET r == meta_perform(bank_reservations, c, Top(c).node)
                f == [Top(c) EXCEPT !.calls = @ + 1]
            IN /\ bank_reservations' = r.br
               /\ context' = [context EXCEPT ![c] = meta_perform_context(c, Top(c).node)]
               /\ UNCHANGED abort_info
               /\ CASE r.outcome = "SUCCESS" -> Return(c, f, TRUE) /\ running' = c
                    [] r.outcome = "FAIL" -> Return(c, f, FALSE) /\ running' = c
                    [] OTHER -> Raise(c) /\ running' = "none"
    /\ UNCHANGED <<scenario, pantry_seen, action_mode, use_replenish_threshold,
                   registrations, resolved, char_data, agents, queues,
                   abort_actions, remaining_cooldown, sleep_remaining, api_result,
                   bank_data, log>>
    /\ check_in_character(c)

(***************************************************************************)
(* _process_group.                                                         *)
(***************************************************************************)
\* line 219
group_never_stops(sub_action_successful) == FALSE
group_stops(sub_action_successful) == ~sub_action_successful

process_group(c) ==
    /\ Sync(c)
    /\ Top(c).pc \in {"group", "group_ret"}
    /\ LET f == Top(c)
           back == f.pc = "group_ret"
           g == IF back THEN [f EXCEPT !.hist = Append(@, Event("child", ret[c].val))]
                ELSE f
       IN IF back /\ group_stops(ret[c].val)
          THEN Return(c, g, FALSE)
          ELSE IF g.i = Len(g.node.actions)
          THEN Return(c, g, TRUE)
          ELSE Call(c, [g EXCEPT !.i = @ + 1, !.pc = "group_ret"], g.node.actions[g.i + 1])
    /\ UNCHANGED <<scenario, pantry_seen, action_mode, use_replenish_threshold, tracked,
                   registrations, context, resolved, char_data,
                   agents, queues, running, abort_actions, remaining_cooldown,
                   sleep_remaining, api_result, bank_data, bank_reservations,
                   log, abort_info>>

(***************************************************************************)
(* _process_control_node.                                                  *)
(***************************************************************************)
RECURSIVE Truth(_, _, _)
Truth(bd, br, branches) ==
    IF branches = <<>> THEN <<>>
    ELSE <<evaluate_condition(bd, br, Head(branches)[1])>>
         \o Truth(bd, br, Tail(branches))

process_if(c) ==
    /\ Sync(c)
    /\ Top(c).pc \in {"if", "if_ret"}
    /\ LET f == Top(c) IN
       IF f.pc = "if"
       THEN LET branch == evaluate_control_branches(bank_data, bank_reservations, f.node)
                g == [f EXCEPT
                        !.idx = control_branch_index(bank_data, bank_reservations, f.node),
                        !.truth = Truth(bank_data, bank_reservations, f.node.branches)]
            IN /\ IF branch # <<>>
                  THEN Call(c, [g EXCEPT !.pc = "if_ret"], branch[1])
                  ELSE Return(c, g, TRUE)
               /\ resolved' = [resolved EXCEPT ![c] =
                                 resolve_branches(bank_data, bank_reservations,
                                                  f.node.branches, @)]
       ELSE /\ Return(c, [f EXCEPT !.hist = Append(@, Event("branch", ret[c].val))],
                      ret[c].val)
            /\ UNCHANGED resolved
    /\ UNCHANGED <<scenario, pantry_seen, action_mode, use_replenish_threshold, tracked,
                   registrations, context, char_data, agents, queues,
                   running, abort_actions, remaining_cooldown, sleep_remaining,
                   api_result, bank_data, bank_reservations, log, abort_info>>

\* lines 244-245 and 253-254: a loop leaves when its body has failed
loop_never_breaks(result) == FALSE
loop_breaks(result) == ~result

\* line 240: the loop test of WHILE
while_true(value) == TRUE
while_test(value) == value

process_while(c) ==
    /\ Sync(c)
    /\ Top(c).pc \in {"while", "while_ret"}
    /\ LET f == Top(c)
           back == f.pc = "while_ret"
           g == IF back
                THEN [f EXCEPT !.result = ret[c].val,
                               !.hist = <<Event("body", ret[c].val)>>]
                ELSE f
       IN IF back /\ loop_breaks(g.result)
          THEN Return(c, g, g.result) /\ UNCHANGED resolved
          ELSE LET value == evaluate_condition(bank_data, bank_reservations,
                                               g.node.condition)
                   h == [g EXCEPT !.evals = Inc(@), !.hist = <<Event("cond", value)>>]
               IN /\ IF while_test(value)
                     THEN Call(c, [h EXCEPT !.pc = "while_ret", !.iters = Inc(@)],
                               h.node.node)
                     ELSE Return(c, h, h.result)
                  /\ resolved' = [resolved EXCEPT ![c] =
                                    resolve_params(bank_data, bank_reservations,
                                                   g.node.condition, @)]
    /\ UNCHANGED <<scenario, pantry_seen, action_mode, use_replenish_threshold, tracked,
                   registrations, context, char_data, agents, queues,
                   running, abort_actions, remaining_cooldown, sleep_remaining,
                   api_result, bank_data, bank_reservations, log, abort_info>>

\* line 250: DO_WHILE enters its body before any test
do_while_tests_first(bd, br, control_node) ==
    evaluate_condition(bd, br, control_node.condition)
do_while_enters(bd, br, control_node) == TRUE

process_do_while(c) ==
    /\ Sync(c)
    /\ Top(c).pc \in {"do_while", "do_while_ret"}
    /\ LET f == Top(c) IN
       IF f.pc = "do_while"
       THEN /\ IF do_while_enters(bank_data, bank_reservations, f.node)
               THEN Call(c, [f EXCEPT !.pc = "do_while_ret", !.iters = Inc(@)],
                         f.node.node)
               ELSE Return(c, f, TRUE)
            /\ UNCHANGED resolved
       ELSE LET g == [f EXCEPT !.result = ret[c].val,
                               !.hist = <<Event("body", ret[c].val)>>]
            IN IF loop_breaks(g.result)
               THEN Return(c, g, g.result) /\ UNCHANGED resolved
               ELSE LET value == evaluate_condition(bank_data, bank_reservations,
                                                    g.node.condition)
                        h == [g EXCEPT !.evals = Inc(@),
                                       !.hist = <<Event("cond", value)>>]
                    IN /\ IF ~value
                          THEN Return(c, h, h.result)
                          ELSE Call(c, [h EXCEPT !.iters = Inc(@)], h.node.node)
                       /\ resolved' = [resolved EXCEPT ![c] =
                                         resolve_params(bank_data, bank_reservations,
                                                        g.node.condition, @)]
    /\ UNCHANGED <<scenario, pantry_seen, action_mode, use_replenish_threshold, tracked,
                   registrations, context, char_data, agents, queues,
                   running, abort_actions, remaining_cooldown, sleep_remaining,
                   api_result, bank_data, bank_reservations, log, abort_info>>

\* lines 275-278: the value a TRY with a finally_path returns
try_keeps_failure(result, finally_result) == result /\ finally_result
try_result(result, finally_result) == finally_result

\* lines 266-278 from the given stage on; f.result is the running result
TryFrom(c, f, stage) ==
    IF stage = "node" /\ f.result /\ f.node.success_path # <<>>
    THEN Call(c, [f EXCEPT !.pc = "try_success"], f.node.success_path[1])
    ELSE IF stage \in {"node", "success"} /\ ~f.result /\ f.node.error_path # <<>>
    THEN Call(c, [f EXCEPT !.pc = "try_error"], f.node.error_path[1])
    ELSE IF f.node.finally_path # <<>>
    THEN Call(c, [f EXCEPT !.pc = "try_finally"], f.node.finally_path[1])
    ELSE Return(c, f, f.result)

process_try(c) ==
    /\ Sync(c)
    /\ Top(c).pc \in {"try", "try_node", "try_success", "try_error", "try_finally"}
    /\ LET f == Top(c)
           g(slot) == [f EXCEPT !.result = ret[c].val,
                                !.hist = Append(@, Event(slot, ret[c].val))]
       IN CASE f.pc = "try" -> Call(c, [f EXCEPT !.pc = "try_node"], f.node.node)
            [] f.pc = "try_node" -> TryFrom(c, g("node"), "node")
            [] f.pc = "try_success" -> TryFrom(c, g("success_path"), "success")
            [] f.pc = "try_error" -> TryFrom(c, g("error_path"), "error")
            [] f.pc = "try_finally" ->
                  Return(c, [g("finally_path") EXCEPT
                                !.result = try_result(f.result, ret[c].val)],
                         try_result(f.result, ret[c].val))
    /\ UNCHANGED <<scenario, pantry_seen, action_mode, use_replenish_threshold, tracked,
                   registrations, context, resolved, char_data,
                   agents, queues, running, abort_actions, remaining_cooldown,
                   sleep_remaining, api_result, bank_data, bank_reservations,
                   log, abort_info>>

\* _process_node, lines 119-121
process_deferred(c) ==
    /\ Sync(c)
    /\ Top(c).pc \in {"deferred", "deferred_ret"}
    /\ IF Top(c).pc = "deferred"
       THEN Call(c, [Top(c) EXCEPT !.pc = "deferred_ret"],
                 Resolve(Top(c).node.resolver, bank_data, bank_reservations))
       ELSE Return(c, [Top(c) EXCEPT !.hist = Append(@, Event("resolved", ret[c].val))],
                   ret[c].val)
    /\ UNCHANGED <<scenario, pantry_seen, action_mode, use_replenish_threshold, tracked,
                   registrations, context, resolved, char_data,
                   agents, queues, running, abort_actions, remaining_cooldown,
                   sleep_remaining, api_result, bank_data, bank_reservations,
                   log, abort_info>>

Next ==
    \/ \E c \in Chars : add_character(c)
    \/ \E c \in Chars : \E k \in 1..Len(Menu(scenario, c)) : queue_action_node(c, k)
    \/ \E c \in Chars : set_abort_actions(c)
    \/ \E c \in Chars : construct(c)
    \/ \E c \in Chars : RemoteReply(c)
    \/ Tick
    \/ \E c \in Chars : \E mode \in AgentMode : set_mode(c, mode)
    \/ \E c \in Chars : WorkerIdle(c)
    \/ \E c \in Chars : WorkerGoal(c)
    \/ \E c \in Chars : WorkerPop(c)
    \/ \E c \in Chars : WorkerFinish(c)
    \/ \E c \in Chars : process_node(c)
    \/ \E c \in Chars : CooldownWait(c)
    \/ \E c \in Chars : CooldownWake(c)
    \/ \E c \in Chars : Perform(c)
    \/ \E c \in Chars : PerformResume(c)
    \/ \E c \in Chars : BackoffWake(c)
    \/ \E c \in Chars : process_single_meta_action(c)
    \/ \E c \in Chars : process_group(c)
    \/ \E c \in Chars : process_if(c)
    \/ \E c \in Chars : process_while(c)
    \/ \E c \in Chars : process_do_while(c)
    \/ \E c \in Chars : process_try(c)
    \/ \E c \in Chars : process_deferred(c)

Spec == Init /\ [][Next]_vars

(***************************************************************************)
(* The scheduling of the event loop.  A task that is ready to run is run:  *)
(* asyncio keeps the ready callbacks in a FIFO queue, so a worker that can *)
(* take a step again and again does take it; the clock advances and the    *)
(* server answers every request (the HTTP client times out otherwise).     *)
(* The command line promises nothing.                                      *)
(***************************************************************************)
WorkerStep(c) ==
    \/ WorkerIdle(c) \/ WorkerGoal(c) \/ WorkerPop(c) \/ WorkerFinish(c)
    \/ process_node(c) \/ CooldownWait(c) \/ CooldownWake(c)
    \/ Perform(c) \/ PerformResume(c) \/ BackoffWake(c)
    \/ process_single_meta_action(c) \/ process_group(c) \/ process_if(c)
    \/ process_while(c) \/ process_do_while(c) \/ process_try(c)
    \/ process_deferred(c)

Fairness ==
    /\ SF_vars(Tick)
    /\ \A c \in Chars : SF_vars(RemoteReply(c))
    /\ \A c \in Chars : SF_vars(WorkerStep(c))

LiveSpec == LiveInit /\ [][Next]_vars /\ Fairness
AbortSpec == AbortInit /\ [][Next]_vars /\ Fairness

(***************************************************************************)
(* Properties.  Workers(c) are the characters with a worker; Frames(c) are *)
(* the live activations of c's worker together with the one that returned  *)
(* last; Returned(c) is the latter once it ran past the abort check of     *)
(* _process_node.                                                          *)
(***************************************************************************)
Frames(c) == {stack[c][k] : k \in 1..Len(stack[c])} \cup {ret[c].frame}
Returned(c) == ret[c].frame.pc \notin {"none", "enter"}
\* the activation the k-th one of c's stack called last: the one above it, or
\* the one that has just returned to it
Child(c, k) == IF k < Len(stack[c]) THEN stack[c][k + 1] ELSE ret[c].frame
IsCharacterAction(node) == node.kind = "Action" /\ node.type \in CharacterAction
IsGroup(node) == node.kind = "ActionGroup"
IsControl(node, op) == node.kind = "ActionControlNode" /\ node.control_operator = op
AllTrue(hist) == \A k \in 1..Len(hist) : hist[k].val

\* C1: a character action never makes more than retry_max (3) remote calls,
\* an activation that still runs has seen fewer than 3 FAIL_RETRY replies, and
\* an action that returned from a reply with every one of its calls answered
\* FAIL_RETRY made exactly 3 calls and returned failure.
C1_RetryBound ==
    \A c \in Chars :
        /\ \A f \in Frames(c) : IsCharacterAction(f.node) => f.calls <= retry_max
        /\ \A k \in 1..Len(stack[c]) : stack[c][k].retry_count < retry_max
        /\ ( /\ IsCharacterAction(ret[c].frame.node)
             /\ ret[c].frame.pc = "remote"
             /\ ret[c].frame.retry_count = ret[c].frame.calls )
           => ret[c].frame.calls = retry_max /\ ~ret[c].val

C1_Witness ==
    /\ scenario.name = "retry"
    /\ ~abort_actions["a"] /\ abort_info["a"] = NoAbort
    /\ ret["a"].frame.node = rest
    /\ ret["a"].frame.pc = "remote"
    /\ ret["a"].frame.calls = 3 /\ ret["a"].frame.retry_count = 3
    /\ ~ret["a"].val

\* C2: a group starts its children in list order, one at a time; every child
\* before the last one processed returned success; a group that returned
\* failure returned it right after its last processed child failed, with the
\* later children never started; it returned success exactly when all its
\* children were processed and succeeded (none, for an empty group).
C2_GroupFailFast ==
    \A c \in Chars :
        /\ \A k \in 1..Len(stack[c]) :
              LET f == stack[c][k] IN
              IsGroup(f.node) /\ f.pc = "group_ret" =>
                 /\ f.i \in 1..Len(f.node.actions)
                 /\ Child(c, k).node = f.node.actions[f.i]
                 /\ Len(f.hist) = f.i - 1
                 /\ AllTrue(f.hist)
        /\ IsGroup(ret[c].frame.node) /\ Returned(c) =>
              LET f == ret[c].frame IN
              /\ Len(f.hist) = f.i
              /\ AllTrue(SubSeq(f.hist, 1, Len(f.hist) - 1))
              /\ ret[c].val <=> (f.i = Len(f.node.actions) /\ AllTrue(f.hist))
              /\ ~ret[c].val => f.hist # <<>> /\ ~f.hist[Len(f.hist)].val

C2_Witness ==
    /\ scenario.name = "group"
    /\ ret["a"].frame.node = group(<<rest, fight, complete_task>>)
    /\ ret["a"].frame.hist = <<Event("child", TRUE), Event("child", FALSE)>>
    /\ ret["a"].frame.i = 2
    /\ ~ret["a"].val
    /\ abort_info["a"] = NoAbort

\* The first index of a true entry, 0 when there is none.
FirstTrue(truth) ==
    IF \E k \in 1..Len(truth) : truth[k]
    THEN CHOOSE k \in 1..Len(truth) : truth[k] /\ \A j \in 1..(k - 1) : ~truth[j]
    ELSE 0

\* the plan an IF processes for the index idx; <<>> when it processes none
Chosen(node, idx) == IF idx = 0 THEN node.fail_path ELSE <<node.branches[idx][2]>>

\* C3: an IF processes at most one plan: that of the first branch whose
\* condition held when the node was processed, whatever the later conditions
\* are; fail_path when none held; nothing, returning success, when none held
\* and there is no fail_path.  Its result is the result of the processed plan.
C3_IfFirstBranch ==
    \A c \in Chars :
        /\ \A k \in 1..Len(stack[c]) :
              LET f == stack[c][k] IN
              IsControl(f.node, "IF") /\ f.pc = "if_ret" =>
                 /\ f.idx = FirstTrue(f.truth)
                 /\ f.hist = <<>>
                 /\ <<Child(c, k).node>> = Chosen(f.node, f.idx)
        /\ IsControl(ret[c].frame.node, "IF") /\ Returned(c) =>
              LET f == ret[c].frame IN
              /\ f.idx = FirstTrue(f.truth)
              /\ Len(f.truth) = Len(f.node.branches)
              /\ IF Chosen(f.node, f.idx) = <<>>
                 THEN f.hist = <<>> /\ ret[c].val
                 ELSE Len(f.hist) = 1 /\ ret[c].val = f.hist[1].val

C3_Witness ==
    /\ scenario.name = "if"
    /\ IsControl(ret["a"].frame.node, "IF")
    /\ ret["a"].frame.truth = <<TRUE, TRUE>>
    /\ ret["a"].frame.idx = 1
    /\ ret["a"].frame.hist = <<Event("branch", TRUE)>>
    /\ ret["a"].val

\* C4: the body of a WHILE is entered only right after an evaluation of the
\* condition that returned true, once per such evaluation; a WHILE whose first
\* evaluation returned false has processed its body zero times and returned
\* success.
C4_WhileChecksFirst ==
    \A c \in Chars :
        /\ \A f \in Frames(c) : IsControl(f.node, "WHILE") => f.iters <= f.evals
        /\ \A k \in 1..Len(stack[c]) :
              LET f == stack[c][k] IN
              IsControl(f.node, "WHILE") /\ f.pc = "while_ret" =>
                 /\ f.hist = <<Event("cond", TRUE)>>
                 /\ f.iters = f.evals
                 /\ Child(c, k).node = f.node.node
        /\ ( /\ IsControl(ret[c].frame.node, "WHILE")
             /\ Returned(c)
             /\ ret[c].frame.hist = <<Event("cond", FALSE)>> )
           => /\ ret[c].val
              /\ ret[c].frame.evals = 1 => ret[c].frame.iters = 0

C4_Witness ==
    /\ scenario.name = "while"
    /\ ret["a"].frame.node = WHILE_(rest, ore_in_bank)
    /\ ret["a"].frame.hist = <<Event("cond", FALSE)>>
    /\ ret["a"].frame.evals = 1
    /\ ret["a"].frame.iters = 0
    /\ ret["a"].val
    /\ bank_data["copper_ore"] = 0

\* C5: a DO_WHILE has processed its body at least once whenever it has
\* evaluated its condition or returned, and the body as often as the
\* condition until then; one that returned after its first evaluation, which
\* was false, has processed the body exactly once and returned success.
C5_DoWhileBodyFirst ==
    \A c \in Chars :
        /\ \A f \in Frames(c) :
              IsControl(f.node, "DO_WHILE") /\ f.pc \notin {"enter", "do_while"} =>
                 /\ f.iters >= 1
                 /\ f.evals <= f.iters
        /\ IsControl(ret[c].frame.node, "DO_WHILE") /\ Returned(c) =>
              /\ ret[c].frame.iters >= 1
              /\ ret[c].frame.evals = 1 /\ ret[c].frame.hist = <<Event("cond", FALSE)>>
                    => ret[c].frame.iters = 1 /\ ret[c].val

C5_Witness ==
    /\ scenario.name = "do_while"
    /\ ret["a"].frame.node = DO_WHILE(rest, ore_in_bank)
    /\ ret["a"].frame.evals = 1
    /\ ret["a"].frame.hist = <<Event("cond", FALSE)>>
    /\ ret["a"].frame.iters = 1
    /\ ret["a"].val
    /\ bank_data["copper_ore"] = 0

\* C6: a TRY with a finally_path returns only after processing finally_path,
\* as the last thing it does, and returns the result of finally_path, whatever
\* the body, success_path and error_path returned.
C6_TryFinally ==
    \A c \in Chars :
        LET f == ret[c].frame IN
        IsControl(f.node, "TRY") /\ Returned(c) /\ f.node.finally_path # <<>> =>
           /\ f.pc = "try_finally"
           /\ f.hist # <<>>
           /\ f.hist[Len(f.hist)].slot = "finally_path"
           /\ \A k \in 1..(Len(f.hist) - 1) : f.hist[k].slot # "finally_path"
           /\ ret[c].val = f.hist[Len(f.hist)].val

C6_Witness ==
    /\ scenario.name = "try"
    /\ abort_info["a"] = NoAbort /\ ~abort_actions["a"]
    /\ IsControl(ret["a"].frame.node, "TRY")
    /\ ret["a"].frame.node.error_path = <<>>
    /\ ret["a"].frame.hist = <<Event("node", FALSE), Event("finally_path", TRUE)>>
    /\ ret["a"].val

\* steps of c's worker, told from the two states of a step
CallStarts(c) == api_result[c].st # "pending" /\ api_result'[c].st = "pending"
Finishes(c) == worker_tasks[c] = "run" /\ worker_tasks'[c] = "loop"
Takes(c) == stack[c] = <<>> /\ stack'[c] # <<>>
\* the queue of c as its worker's popleft finds it: a worker in a goal mode
\* that finds the queue empty has the coordinator queue a node first
QueueAtPop(c) ==
    IF queues[c] = <<>> /\ action_mode[c] # "MANUAL"
    THEN queue_appended(queues, c,
             get_next_goal(c, IF action_mode[c] = "AUTO_GOAL_LEADER"
                              THEN "progression" ELSE "pantry").node)[c]
    ELSE queues[c]
Moves(c) == stack[c] # <<>> /\ stack'[c] # stack[c]
\* the activation on top returns failure without having done anything
SkipsTop(c) == stack'[c] = Below(c) /\ ret'[c] = [val |-> FALSE, frame |-> Top(c)]
\* the flag of c was set while the node c's worker has just processed ran
AbortedInside(c) == abort_actions[c] /\ abort_info[c].at # "none"

\* the three checkpoints stop everything that is left of the node
C7_Skips(c) ==
    abort_actions[c] /\ Moves(c) /\ Top(c).pc \in {"enter", "perform", "meta"}
        => SkipsTop(c)

\* the worker clears the flag when the node has returned, and holds no flag
\* when it takes the next node straight away
C7_Clears(c) ==
    /\ Finishes(c) => ~abort_actions'[c]
    /\ worker_tasks[c] = "loop" /\ Takes(c) => ~abort_actions'[c]

\* C7 as stated: with the flag set during a node, whatever is left of the node
\* is skipped, the node returns failure, and the worker clears the flag before
\* it takes the next node.
C7_Original ==
    [][\A c \in agents :
          /\ C7_Skips(c)
          /\ Finishes(c) /\ AbortedInside(c) => ~ret[c].val
          /\ C7_Clears(c)]_vars

\* C7, amended: with the flag set during a node, whatever is left of the node
\* is skipped and the worker clears the flag before it takes the next node;
\* the node returns failure if anything was skipped, and it can return success
\* only when the flag was set during a remote call and nothing was left to
\* skip after that call.
C7_AbortSkips ==
    [][\A c \in agents :
          /\ C7_Skips(c)
          /\ Finishes(c) /\ AbortedInside(c) =>
                /\ abort_info[c].skipped => ~ret[c].val
                /\ ret[c].val => abort_info[c].at = "remote" /\ ~abort_info[c].skipped
                /\ abort_info[c].at \in {"cooldown", "backoff"} => abort_info[c].skipped
          /\ C7_Clears(c)]_vars

C7_Witness ==
    /\ scenario.name = "group"
    /\ log["a"].msg = "aborted"
    /\ worker_tasks["a"] = "loop"
    /\ ~abort_actions["a"]
    /\ abort_info["a"].at = "remote" /\ abort_info["a"].skipped
    /\ ret["a"].frame.node = group(<<rest, fight, complete_task>>)
    /\ ret["a"].frame.hist = <<Event("child", TRUE), Event("child", FALSE)>>
    /\ ~ret["a"].val

\* C8: whenever a worker sends a request, the character's cooldown has
\* expired: on the first attempt, on a retry, and on the action after a
\* success that set a new cooldown.
C8_CooldownRespected ==
    [][\A c \in Chars : CallStarts(c) => remaining_cooldown[c] = 0]_vars

C8_Witness ==
    /\ scenario.name = "retry"
    /\ log["a"].msg = "finished"
    /\ api_result["a"].st = "pending"
    /\ stack["a"] # <<>>
    /\ Top("a").pc = "remote"
    /\ Top("a").waited > 0
    /\ Top("a").calls = 2
    /\ remaining_cooldown["a"] = 0

\* C9: while a character's flag is set its worker sends no request, and an
\* action that reaches its checkpoint (after a cooldown wait or a backoff too)
\* returns failure unperformed; a request in flight is never withdrawn: it
\* stays pending until the reply is there, and the worker takes the reply up
\* whether or not the flag is set.
C9_CooperativeAbort ==
    [][\A c \in Chars :
          /\ abort_actions[c] => ~CallStarts(c)
          /\ abort_actions[c] /\ Moves(c) /\ Top(c).pc = "perform" => SkipsTop(c)
          /\ Moves(c) /\ Top(c).pc \in {"cooldown_sleep", "backoff"} =>
                stack'[c] = Append(Below(c), [Top(c) EXCEPT !.pc = "perform"])
                \/ stack'[c] = Append(Below(c), [Top(c) EXCEPT !.pc = "cooldown"])
          /\ api_result[c].st = "pending" => api_result'[c].st \in {"pending", "done"}
          /\ api_result[c].st = "done" /\ api_result'[c] # api_result[c] =>
                /\ stack[c] # <<>> /\ Top(c).pc = "remote"
                /\ Moves(c) \/ worker_tasks'[c] = "crashed"
                /\ api_result[c].detail = "OK" =>
                      remaining_cooldown'[c] = api_result[c].cooldown]_vars

C9_Witness ==
    /\ scenario.name = "retry"
    /\ abort_actions["a"]
    /\ abort_info["a"].at = "backoff" /\ abort_info["a"].skipped
    /\ ret["a"].frame.node = rest
    /\ ret["a"].frame.pc = "perform"
    /\ ret["a"].frame.calls = 1
    /\ ret["a"].frame.retry_count = 1
    /\ ~ret["a"].val
    /\ api_result["a"] = NoCall

\* the reservations of a holder, none when it has no entry
ReservationsOf(br, character) ==
    IF character \in DOMAIN br THEN br[character] ELSE EmptyDict

\* C10: when a worker is done with a node and finds the flag set, the ledger
\* holds no reservation of its character afterwards, and every other
\* character's reservations are what they were.
C10_AbortReleases ==
    [][\A c \in agents :
          Finishes(c) /\ abort_actions[c] =>
             /\ Holds(bank_reservations', c) = {}
             /\ \A item \in Items :
                   get_amount_of_item_reserved_in_bank(bank_reservations', item)
                   = get_amount_of_item_reserved_in_bank(bank_reservations, item)
                     - (IF item \in Holds(bank_reservations, c)
                        THEN bank_reservations[c][item] ELSE 0)
             /\ \A d \in Chars \ {c} :
                   ReservationsOf(bank_reservations', d)
                   = ReservationsOf(bank_reservations, d)]_vars

C10_Witness ==
    /\ scenario.name = "ledger"
    /\ log["a"].msg = "aborted"
    /\ log["a"].released = {"copper_ore", "ash_wood"}
    /\ abort_info["a"].at = "remote"
    /\ Holds(bank_reservations, "a") = {}
    /\ Holds(bank_reservations, "b") = {"copper_ore"}
    /\ worker_tasks["a"] = "loop"

\* the raw quantity of the snapshot and the reservations of every holder
RawQuantity(item) == IF item \in DOMAIN bank_data THEN bank_data[item] ELSE 0
ReservedBy(c, item) ==
    IF c \in DOMAIN bank_reservations /\ item \in DOMAIN bank_reservations[c]
    THEN bank_reservations[c][item] ELSE 0
ReservedByAll(item) == SumOver([c \in Chars |-> ReservedBy(c, item)], Chars)

\* the check of RacePlan held for c and the plan it guards is in progress
PastCheck(c) ==
    \E k \in 1..Len(stack[c]) :
        stack[c][k].node = RacePlan /\ stack[c][k].pc = "if_ret" /\ stack[c][k].idx = 1

\* the ledger with the entry of c alone
Alone(c) ==
    IF c \in DOMAIN bank_reservations
    THEN [d \in {c} |-> bank_reservations[c]] ELSE EmptyDict

\* the worker of b is between two nodes, b has a node queued and no cooldown
Waiting(b) ==
    /\ b \in DOMAIN worker_tasks /\ worker_tasks[b] \in {"start", "idle", "loop"}
    /\ queues[b] # <<>>
    /\ remaining_cooldown[b] = 0

\* the worker of c performs the meta action of this type on top of its stack
Performs(c, type) ==
    /\ stack[c] # <<>> /\ Top(c).pc = "meta" /\ Top(c).node.type = type
    /\ ~abort_actions[c]
    /\ stack'[c] # stack[c] \/ worker_tasks'[c] = "crashed"

\* the fields of ActionControlNode that belong to each operator, and the
\* fields a node was given
OwnFields(control_operator) ==
    CASE control_operator = "IF" -> {"branches", "fail_path"}
      [] control_operator = "REPEAT" -> {"control_node", "until"}
      [] control_operator = "DO_WHILE" -> {"action_node", "condition"}
      [] control_operator = "TRY" -> {"action_node", "error_path", "finally_path"}
GivenFields(self) ==
    {f \in {"branches", "fail_path", "control_node", "until", "action_node",
            "condition", "error_path", "finally_path"} : self[f] # <<>>}

\* the nodes the command line can queue for c
Nodes(c) == {Menu(scenario, c)[k] : k \in 1..Len(Menu(scenario, c))}

(***************************************************************************)
(* C11: the nodes queued for one character are processed in the order      *)
(* they were queued and never overlap.  A node is taken only by the one    *)
(* worker of the character, only when the node it took before has          *)
(* returned, and it is the oldest node of the queue; the queue otherwise   *)
(* only grows at its end; the worker of a character is created once.       *)
(***************************************************************************)
C11_FifoNonOverlap ==
    [][\A c \in Chars :
          /\ Takes(c) =>
                /\ c \in DOMAIN worker_tasks /\ worker_tasks[c] \in {"start", "idle", "loop"}
                /\ worker_tasks'[c] = "run"
                /\ QueueAtPop(c) # <<>>
                /\ stack'[c] = <<Frame(Head(QueueAtPop(c)))>>
                /\ queues'[c] = Tail(QueueAtPop(c))
          /\ c \in DOMAIN queues =>
                /\ c \in DOMAIN queues'
                /\ \/ queues'[c] = queues[c]
                   \/ \E node \in Nodes(c) : queues'[c] = Append(queues[c], node)
                   \/ Takes(c)
          /\ c \in DOMAIN worker_tasks =>
                /\ c \in DOMAIN worker_tasks'
                /\ worker_tasks'[c] = "start" => worker_tasks[c] = "start"]_vars

\* the second of two queued nodes is taken after the first one, a group of
\* three actions, has returned
C11_Witness ==
    /\ scenario.name = "group"
    /\ stack["a"] = <<Frame(do_nothing)>>
    /\ ret["a"].frame.node = group(<<rest, fight, complete_task>>)
    /\ Len(ret["a"].frame.hist) = 3
    /\ log["a"].msg = "finished"
(***************************************************************************)
(* C12: for every item the quantity the bank reports as available is the   *)
(* raw quantity of the snapshot (0 for an item the snapshot does not list) *)
(* minus the sum of every holder's reservation of the item.                *)
(***************************************************************************)
C12_AvailableIsRawMinusReserved ==
    \A item \in Items :
        get_amount_of_item_in_bank(bank_data, bank_reservations, item)
            = RawQuantity(item) - ReservedByAll(item)
(***************************************************************************)
(* C13: two characters each check that RaceQty units of an item are        *)
(* available and then reserve RaceQty, the bank holding fewer than twice   *)
(* RaceQty.  At most one of them is past its check at a time: while one    *)
(* has passed the check or holds its reservation the other holds nothing,  *)
(* and once one holds its reservation the quantity the other's check reads *)
(* is at most the raw quantity minus RaceQty.                              *)
(***************************************************************************)
C13_CheckThenReserve ==
    scenario.name = "race" =>
        \A c \in Chars : \A d \in Chars \ {c} :
            /\ RawQuantity("copper_ore") < 2 * RaceQty
            /\ PastCheck(c) => ReservedBy(d, "copper_ore") = 0 /\ ~PastCheck(d)
            /\ ReservedBy(c, "copper_ore") > 0 =>
                  /\ ReservedBy(c, "copper_ore") = RaceQty
                  /\ ReservedBy(d, "copper_ore") = 0 /\ ~PastCheck(d)
                  /\ get_quantity_of_item_available(bank_data, bank_reservations,
                                                    "copper_ore")
                        <= RawQuantity("copper_ore") - RaceQty

\* a holds its reservation and waits for the server; the check of b failed
C13_Witness ==
    /\ scenario.name = "race"
    /\ ReservedBy("a", "copper_ore") = RaceQty
    /\ stack["a"] # <<>> /\ Top("a").pc = "remote"
    /\ stack["b"] = <<>>
    /\ ret["b"].frame.node = RacePlan
    /\ ret["b"].frame.truth = <<FALSE>>
    /\ ret["b"].val
(***************************************************************************)
(* C14: no reservation update is lost.  A step that changes the            *)
(* reservations of a holder is a step of that holder's worker (a           *)
(* reservation meta action, or the release after an abort); what the       *)
(* holder has afterwards is what the same operation gives on a ledger      *)
(* that holds its entry alone; every other holder's reservations are       *)
(* unchanged.                                                              *)
(***************************************************************************)
C14_NoLostUpdate ==
    [][\A c \in Chars :
          ReservationsOf(bank_reservations', c) # ReservationsOf(bank_reservations, c) =>
             /\ running = c
             /\ \/ /\ stack[c] # <<>> /\ Top(c).pc = "meta"
                   /\ ReservationsOf(bank_reservations', c)
                        = ReservationsOf(meta_perform(Alone(c), c, Top(c).node).br, c)
                \/ /\ Finishes(c) /\ abort_actions[c]
                   /\ ReservationsOf(bank_reservations', c) = EmptyDict
             /\ \A d \in Chars \ {c} :
                   ReservationsOf(bank_reservations', d)
                   = ReservationsOf(bank_reservations, d)]_vars

\* b reserved while a, holding two reservations, waits for the server
C14_Witness ==
    /\ scenario.name = "ledger"
    /\ stack["a"] # <<>> /\ Top("a").pc = "remote"
    /\ api_result["a"].st = "pending"
    /\ ReservationsOf(bank_reservations, "a") = [i \in Items |-> 1]
    /\ ReservationsOf(bank_reservations, "b") = [i \in {"copper_ore"} |-> 1]
    /\ ret["b"].frame.node = add_item_reservations(<<Entry("copper_ore", 1)>>)
    /\ ret["b"].frame.calls = 1
(***************************************************************************)
(* C15: no worker blocks another.  Whenever the worker of a character is   *)
(* between two nodes, the character has a node queued and its cooldown has *)
(* elapsed, the worker eventually takes the node up, whatever the other    *)
(* workers are processing.                                                 *)
(***************************************************************************)
C15_NoWorkerBlocksAnother ==
    \A b \in Chars : Waiting(b) ~> (b \in DOMAIN worker_tasks /\ worker_tasks[b] = "run")
(***************************************************************************)
(* C16: successive reservations of an item accumulate, also when the same  *)
(* holder makes them.  A reservation of quantity q of an item raises the   *)
(* reserved amount of the item by q and lowers the available amount by q   *)
(* (raw 100: reserve 30 gives 30 reserved and 70 available, reserve 20     *)
(* more gives 50 and 50).                                                  *)
(***************************************************************************)
C16_ReservationsAccumulate ==
    [][\A c \in Chars :
          Performs(c, "CREATE_ITEM_RESERVATION") /\ Len(Top(c).node.items) = 1 =>
             LET item == Top(c).node.items[1] IN
             /\ get_amount_of_item_reserved_in_bank(bank_reservations', item.code)
                  = get_amount_of_item_reserved_in_bank(bank_reservations, item.code)
                    + item.quantity
             /\ item.code \in DOMAIN bank_data =>
                   get_amount_of_item_in_bank(bank_data', bank_reservations', item.code)
                   = get_amount_of_item_in_bank(bank_data, bank_reservations, item.code)
                     - item.quantity]_vars
(***************************************************************************)
(* C17: clearing the reservation of an item the holder does not hold is    *)
(* fatal and leaves the ledger unchanged, whether the holder has           *)
(* reservations of other items, none at all, or none any more after an     *)
(* update brought its last one to zero.                                    *)
(***************************************************************************)
C17_ClearOfMissingIsFatal ==
    [][\A c \in Chars :
          /\ Performs(c, "CLEAR_ITEM_RESERVATION")
          /\ Len(Top(c).node.items) = 1
          /\ ReservedBy(c, Top(c).node.items[1].code) = 0
          => /\ worker_tasks'[c] = "crashed"
             /\ bank_reservations' = bank_reservations]_vars
(***************************************************************************)
(* C18: a reservation does not outlive the transaction it was created for. *)
(* When the worker is done, by failure and without abort, with a planner   *)
(* node that creates reservations, the character holds none.               *)
(***************************************************************************)
C18_ReservationEndsWithNode ==
    [][\A c \in agents :
          /\ Finishes(c) /\ ~abort_actions[c]
          /\ ret[c].frame.node \in {TurnInPlan, RacePlan}
          /\ ~ret[c].val
          => Holds(bank_reservations', c) = {}]_vars
(***************************************************************************)
(* C19: constructing a condition expression succeeds only for a            *)
(* well-shaped node.  It fails when the node has a condition tag and       *)
(* children, an operator and a condition tag, neither of the two, AND or   *)
(* OR with fewer than 2 children, or NOT with other than 1 child; it       *)
(* succeeds otherwise.                                                     *)
(***************************************************************************)
C19_ExpressionShape ==
    \A c \in Chars :
        scenario.name = "expression" /\ log[c] # NoLog =>
            LET self == ExpressionCandidate(scenario.n)
                failed == log[c].msg = "AssertionError"
                n == Len(self.children)
            IN /\ self.condition # "None" /\ n > 0 => failed
               /\ self.operator # "None" /\ self.condition # "None" => failed
               /\ self.operator = "None" /\ self.condition = "None" => failed
               /\ self.operator \in {"AND", "OR"} /\ n < 2 => failed
               /\ self.operator = "NOT" /\ n # 1 => failed
               /\ failed \/ log[c].msg = "constructed"
               /\ \/ self.operator = "None" /\ self.condition # "None" /\ n = 0
                  \/ self.operator = "NOT" /\ self.condition = "None" /\ n = 1
                  \/ self.operator \in {"AND", "OR"} /\ self.condition = "None" /\ n >= 2
                  => ~failed

\* the construction of an AND of one child has failed
C19_Witness ==
    /\ scenario.name = "expression"
    /\ ExpressionCandidate(scenario.n) = ActionConditionExpression("AND", "None", <<FOREVER>>)
    /\ log["a"].msg = "AssertionError"
(***************************************************************************)
(* C20: constructing a control node whose fields do not match its operator *)
(* fails: an IF without a branch, a loop without its body or its           *)
(* condition, a TRY without a body, and any node given a field of another  *)
(* operator.                                                               *)
(***************************************************************************)
C20_ControlNodeShape ==
    \A c \in Chars :
        scenario.name = "control" /\ log[c] # NoLog =>
            LET self == ControlCandidate(scenario.n)
                failed == log[c].msg = "AssertionError"
            IN /\ self.control_operator = "IF" =>
                     (self.branches = <<>> \/ self.branches[1] = <<>> => failed)
               /\ self.control_operator = "DO_WHILE" =>
                     (self.action_node = <<>> \/ self.condition = <<>> => failed)
               /\ self.control_operator = "REPEAT" =>
                     (self.control_node = <<>> \/ self.until = <<>> => failed)
               /\ self.control_operator = "TRY" => (self.action_node = <<>> => failed)
               /\ ~(GivenFields(self) \subseteq OwnFields(self.control_operator)) => failed

\* the value of a condition by its structure alone: the connectives over the
\* values of the children, the predicate of a leaf on the ledger and the
\* character of c
RECURSIVE reference_value(_, _)
reference_value(c, e) ==
    IF e = no_condition THEN TRUE
    ELSE CASE e.operator = "AND" ->
                \A k \in 1..Len(e.children) : reference_value(c, e.children[k])
           [] e.operator = "OR" ->
                \E k \in 1..Len(e.children) : reference_value(c, e.children[k])
           [] e.operator = "NOT" -> ~reference_value(c, e.children[1])
           [] e.condition = "FOREVER" -> TRUE
           [] e.condition = "TASK_COMPLETE" ->
                char_data[c].task_progress = char_data[c].task_total
           [] e.condition = "BANK_HAS_ITEM_OF_QUANTITY" ->
                get_quantity_of_item_available(bank_data, bank_reservations, e.item)
                    >= e.quantity

\* the activation of the IF on top of c's stack, after the step that
\* evaluated its conditions
Evaluated(c) ==
    IF Len(stack'[c]) > Len(stack[c]) THEN stack'[c][Len(stack[c])] ELSE ret'[c].frame

\* C21: whenever an IF evaluates the conditions of its branches, the value
\* of each is the reference value of the expression on the state of that
\* moment: true for an absent condition, the predicate for a leaf, the
\* conjunction, disjunction and negation of the children's values for AND,
\* OR and NOT.
C21_EvaluateIsReference ==
    [][\A c \in agents :
          stack[c] # <<>> /\ Top(c).pc = "if" /\ Moves(c) =>
             /\ Len(Evaluated(c).truth) = Len(Top(c).node.branches)
             /\ \A k \in 1..Len(Top(c).node.branches) :
                   Evaluated(c).truth[k]
                       = reference_value(c, Top(c).node.branches[k][1])]_vars

\* an IF has evaluated a disjunction with a negated child to true while the
\* ore of the bank was reserved
C21_Witness ==
    /\ scenario.name = "evaluate"
    /\ bank_reservations # EmptyDict
    /\ IsControl(ret["a"].frame.node, "IF")
    /\ Returned("a")
    /\ LET e == ret["a"].frame.node.branches[1][1] IN
          /\ e.operator = "OR"
          /\ e.children[1].operator = "AND"
          /\ e.children[2].operator = "NOT"
          /\ ret["a"].frame.truth = <<TRUE>>

\* the activation on top of c's stack returns val with this step
ReturnsTop(c, val) == stack'[c] = Below(c) /\ ret'[c].val = val

\* the reply to the remote call of the action on top of c's stack
C22_Remote(c) ==
    stack[c] # <<>> /\ Top(c).pc = "remote" /\ Moves(c) =>
        LET outcome == perform_outcome(api_result[c].detail) IN
        /\ outcome \in {"SUCCESS", "FAIL_CONTINUE"} => ReturnsTop(c, TRUE)
        /\ outcome = "FAIL" =>
              ReturnsTop(c, FALSE) /\ ret'[c].frame.retry_count = Top(c).retry_count
        /\ stack'[c] # Below(c) =>
              /\ outcome = "FAIL_RETRY"
              /\ Len(stack'[c]) = Len(stack[c])
              /\ Top(c)' = [Top(c) EXCEPT !.pc = "backoff", !.retry_count = @ + 1]

\* the action perform cancels without a remote call
C22_Cancel(c) ==
    ( /\ stack[c] # <<>>
      /\ Top(c).pc = "perform"
      /\ Moves(c)
      /\ ~abort_actions[c]
      /\ perform_local(Top(c).node) = "CANCEL" )
        => ReturnsTop(c, TRUE) /\ api_result'[c] = api_result[c]

\* the group a succeeding character action returns to goes on
C22_Sibling(c) ==
    ( /\ stack[c] # <<>>
      /\ Top(c).pc = "group_ret"
      /\ Moves(c)
      /\ IsCharacterAction(ret[c].frame.node)
      /\ ret[c].val
      /\ Top(c).i < Len(Top(c).node.actions) )
        => /\ Len(stack'[c]) = Len(stack[c]) + 1
           /\ Top(c)'.node = Top(c).node.actions[Top(c).i + 1]

\* C22: the outcomes SUCCESS, FAIL_CONTINUE and CANCEL make the character
\* action return success, and the group it returns to then processes the
\* next sibling; FAIL makes it return failure with its retry count as it
\* was; the action makes another attempt only after FAIL_RETRY.
C22_OutcomeMapping ==
    [][\A c \in agents : C22_Remote(c) /\ C22_Cancel(c) /\ C22_Sibling(c)]_vars

\* the first sibling has returned success, the second was cancelled and
\* returned success, and the third is with the server, answered ON_COOLDOWN
\* once before
C22_Witness ==
    /\ scenario.name = "outcome"
    /\ Len(stack["a"]) = 2
    /\ stack["a"][1].hist = <<Event("child", TRUE), Event("child", TRUE)>>
    /\ stack["a"][2].node = fight
    /\ stack["a"][2].pc = "remote"
    /\ stack["a"][2].retry_count = 1

\* C23: in the gathering run (12 copper_ore in the inventory, 5 in the bank,
\* the deposit asking for 10 in the bank) the deposit action is never
\* entered; the IF takes no branch and processes the empty fail_path, which
\* returns success; and the node returns success to the worker when move and
\* gather did and nothing of it was skipped for an abort.
C23_DepositBranchNotTaken ==
    scenario.name = "deposit_if" =>
        \A c \in agents :
            /\ \A f \in Frames(c) : f.node # bank_all_items
            /\ \A k \in 1..Len(stack[c]) :
                  IsControl(stack[c][k].node, "IF") /\ stack[c][k].pc = "if_ret" =>
                     /\ stack[c][k].truth = <<FALSE>>
                     /\ Child(c, k).node = do_nothing
            /\ IsControl(ret[c].frame.node, "IF") /\ Returned(c) /\ ret[c].frame.pc = "if_ret" =>
                  ret[c].val /\ ret[c].frame.hist = <<Event("branch", TRUE)>>
            /\ ( /\ stack[c] = <<>>
                 /\ worker_tasks[c] = "run"
                 /\ ret[c].frame.node = DepositIfPlan
                 /\ Len(ret[c].frame.hist) >= 2
                 /\ ret[c].frame.hist[1].val /\ ret[c].frame.hist[2].val
                 /\ ~abort_info[c].skipped )
                  => ret[c].val /\ Len(ret[c].frame.hist) = 3

\* the node has returned success after move, gather and the IF, the last
\* reply carrying the 13 copper_ore of the inventory
C23_Witness ==
    /\ scenario.name = "deposit_if"
    /\ ret["a"].frame.node = DepositIfPlan
    /\ ret["a"].frame.hist = <<Event("child", TRUE), Event("child", TRUE), Event("child", TRUE)>>
    /\ ret["a"].val
    /\ char_data["a"] = Gatherer(13)
    /\ bank_data = [i \in {"copper_ore"} |-> 5]
    /\ log["a"].msg = "finished"

\* C24: a call of add_character for a name that is registered changes
\* nothing: the queue of the name keeps its nodes, the state of the stored
\* agent and the position of its worker stay as they are, and every
\* registered name has one queue and one worker.
C24_RegisteringAgainIsNoOp ==
    [][\A c \in agents :
          registrations'[c] # registrations[c] =>
             /\ UNCHANGED <<agents, queues, worker_tasks, running, stack, ret,
                            abort_actions, char_data, remaining_cooldown,
                            sleep_remaining, api_result, bank_data,
                            bank_reservations, log, abort_info>>
             /\ DOMAIN queues' = agents'
             /\ DOMAIN worker_tasks' = agents']_vars

\* the name was registered more than once, and its worker is in a node with
\* another one queued behind it
C24_Witness ==
    /\ registrations["a"] > 1
    /\ "a" \in agents
    /\ queues["a"] # <<>>
    /\ worker_tasks["a"] = "run"
    /\ stack["a"] # <<>>

\* the reply the worker of c resumes with carries a bank list
BankUpdated(c) ==
    /\ stack[c] # <<>>
    /\ Top(c).pc = "remote"
    /\ Moves(c)
    /\ api_result[c].detail = "OK"
    /\ api_result[c].bank # <<>>

\* C25: when a reply brings a bank list, the snapshot afterwards holds every
\* item of the list with the quantity given there and nothing else, an item
\* the list does not name has available quantity 0 whatever the snapshot
\* held before, and the reservations are as they were.
C25_SnapshotReplaced ==
    [][\A c \in agents :
          BankUpdated(c) =>
             LET list == api_result[c].bank
                 codes == {list[k].code : k \in 1..Len(list)}
             IN /\ DOMAIN bank_data' = codes
                /\ \A k \in 1..Len(list) : bank_data'[list[k].code] = list[k].quantity
                /\ \A i \in Items \ codes :
                      get_amount_of_item_in_bank(bank_data', bank_reservations', i) = 0
                /\ bank_reservations' = bank_reservations]_vars

\* the bank held wood and the character reserved one; a reply listed the ore
\* alone, and the snapshot has no wood any more while the reservation stands
C25_Witness ==
    /\ scenario.name = "bank_update"
    /\ bank_data = [i \in {"copper_ore"} |-> MaxBank]
    /\ "a" \in DOMAIN bank_reservations
    /\ bank_reservations["a"] = [i \in Items |-> 1]
    /\ ret["a"].frame.node = rest
    /\ ret["a"].frame.pc = "remote"
    /\ ret["a"].val

\* the TRY activation f has gone into its error_path
InErrorPath(f) ==
    f.pc = "try_error" \/ \E k \in 1..Len(f.hist) : f.hist[k].slot = "error_path"

\* C26: a TRY processes its error_path if and only if its body returned
\* failure and it has an error_path: never after a body that returned
\* success, whatever the success_path returned, and always, before it
\* returns, after a body that returned failure.
C26_ErrorPathIffBodyFailed ==
    \A c \in Chars :
        /\ \A f \in Frames(c) :
              IsControl(f.node, "TRY") /\ InErrorPath(f) =>
                 ~f.hist[1].val /\ f.node.error_path # <<>>
        /\ ( /\ IsControl(ret[c].frame.node, "TRY")
             /\ Returned(c)
             /\ ret[c].frame.hist # <<>>
             /\ ~ret[c].frame.hist[1].val
             /\ ret[c].frame.node.error_path # <<>> )
              => InErrorPath(ret[c].frame)

\* the loop on top of c's stack has its body back with the value val
BodyBack(c, val) ==
    /\ stack[c] # <<>>
    /\ Top(c).pc \in {"while_ret", "do_while_ret"}
    /\ Moves(c)
    /\ ret[c].val = val

\* C27: when the body of a WHILE or DO_WHILE has returned failure, the loop
\* returns failure with its next step: the condition is not evaluated again
\* and the body is not entered again.
C27_LoopStopsAtFailure ==
    [][\A c \in agents :
          BodyBack(c, FALSE) =>
             /\ ReturnsTop(c, FALSE)
             /\ ret'[c].frame.evals = Top(c).evals
             /\ ret'[c].frame.iters = Top(c).iters
             /\ ret'[c].frame.hist = <<Event("body", FALSE)>>]_vars

\* a WHILE whose condition still holds has returned failure from the second
\* pass of its body, with no abort requested
C27_Witness ==
    /\ scenario.name = "while"
    /\ IsControl(ret["a"].frame.node, "WHILE")
    /\ Returned("a")
    /\ ret["a"].frame.hist = <<Event("body", FALSE)>>
    /\ ret["a"].frame.iters = 2
    /\ ret["a"].frame.evals = 2
    /\ ~ret["a"].val
    /\ evaluate_condition(bank_data, bank_reservations, ret["a"].frame.node.condition)
    /\ abort_info["a"] = NoAbort
    /\ ~abort_actions["a"]

IsForeverLoop(node) ==
    /\ IsControl(node, "WHILE") \/ IsControl(node, "DO_WHILE")
    /\ node.condition = FOREVER

\* C28: a WHILE or DO_WHILE whose condition is FOREVER never returns
\* success: whenever it has returned, it returned failure, either with its
\* body back with failure or skipped as a whole at its entry (the check of
\* the abort flag).
C28_ForeverLoopNeverSucceeds ==
    \A c \in Chars :
        LET f == ret[c].frame IN
        f.pc # "none" /\ IsForeverLoop(f.node) =>
           /\ ~ret[c].val
           /\ \/ f.pc = "enter"
              \/ f.pc \in {"while_ret", "do_while_ret"} /\ f.hist = <<Event("body", FALSE)>>

\* a WHILE FOREVER has returned failure from the second pass of its body,
\* with no abort requested
C28_Witness ==
    /\ scenario.name = "forever"
    /\ ret["a"].frame.node = WHILE_(rest, FOREVER)
    /\ ret["a"].frame.pc = "while_ret"
    /\ ret["a"].frame.iters = 2
    /\ ~ret["a"].val
    /\ abort_info["a"] = NoAbort
    /\ ~abort_actions["a"]

\* the ContextValue entries the step of c's worker reads: that of the action
\* it enters, or those of the leaves the loop test reaches
Uses(c) ==
    IF stack[c] = <<>> \/ ~Moves(c) THEN {}
    ELSE IF Top(c).pc = "enter" /\ ~abort_actions[c] /\ HasDeferred(Top(c).node)
    THEN {Top(c).node.value}
    ELSE IF \/ Top(c).pc = "while"
            \/ Top(c).pc \in {"while_ret", "do_while_ret"} /\ ret[c].val
    THEN DOMAIN resolve_params(bank_data, bank_reservations, Top(c).node.condition,
                               EmptyDict)
    ELSE {}

\* C29: every time an action or a condition leaf with a context-bound
\* parameter is used, the value it works with is the one the key has in the
\* character's context at that moment, also when the same action or leaf was
\* used before and the context has changed since.
C29_ResolvedAtEveryUse ==
    [][\A c \in agents :
          \A value \in Uses(c) : resolved'[c][value] = context[c][value.key]]_vars

(***************************************************************************)
(* Deferred plan nodes                                                     *)
(***************************************************************************)
\* the node the resolver fight_if_ore answers in the current state
FightIfOreNow ==
    IF get_quantity_of_item_available(bank_data, bank_reservations, "copper_ore") >= 1
    THEN fight ELSE do_nothing
\* worker c is at a deferred node and takes the step that resolves it
VisitsDeferred(c) ==
    stack[c] # <<>> /\ Top(c).pc = "deferred" /\ stack'[c] # stack[c]
\* worker c is back from the resolved node and leaves the deferred node
LeavesDeferred(c) ==
    stack[c] # <<>> /\ Top(c).pc = "deferred_ret" /\ stack'[c] # stack[c]

\* C30: every visit of a deferred plan node resolves it against the state of
\* that moment: the step that visits it pushes exactly one activation, that
\* of the node its resolver answers now (for fight_if_ore: fight when
\* copper_ore is available now, else do_nothing, whatever an earlier visit
\* answered), the node under a waiting deferred node is not resolved again
\* during the visit, and the deferred node returns what that node returned.
C30_DeferredResolvedEachVisit ==
    [][\A c \in agents :
          /\ VisitsDeferred(c) =>
                /\ Len(stack'[c]) = Len(stack[c]) + 1
                /\ stack'[c][Len(stack[c])] = [Top(c) EXCEPT !.pc = "deferred_ret"]
                /\ stack'[c][Len(stack'[c])] =
                      Frame(Resolve(Top(c).node.resolver, bank_data, bank_reservations))
                /\ Top(c).node.resolver = "fight_if_ore" =>
                      stack'[c][Len(stack'[c])].node = FightIfOreNow
          /\ \A k \in 1..(Len(stack[c]) - 1) :
                (stack[c][k].pc = "deferred_ret" /\ Len(stack'[c]) > k
                   /\ stack'[c][k] = stack[c][k]) =>
                   stack'[c][k + 1].node = stack[c][k + 1].node
          /\ LeavesDeferred(c) =>
                /\ stack'[c] = Below(c)
                /\ ret'[c].val = ret[c].val
                /\ ret'[c].frame.node = Top(c).node
                /\ ret'[c].frame.hist = <<Event("resolved", ret[c].val)>>]_vars

\* On a later pass of the loop the deferred node, which became fight on the
\* first pass (the bank held copper_ore then), waits for do_nothing: the
\* bank has no copper_ore available now.
C30_Witness ==
    /\ scenario.name = "deferred"
    /\ \E c \in agents :
          /\ Len(stack[c]) >= 3
          /\ stack[c][1].node = DeferredLoop
          /\ stack[c][1].iters >= 2
          /\ stack[c][Len(stack[c]) - 1].node = DeferredPlanNode("fight_if_ore")
          /\ stack[c][Len(stack[c]) - 1].pc = "deferred_ret"
          /\ Top(c).node = do_nothing
          /\ FightIfOreNow = do_nothing

(***************************************************************************)
(* Meta actions                                                            *)
(***************************************************************************)
IsMetaAction(node) == node.kind = "Action" /\ node.type \in MetaAction
\* the worker of c takes the step of _process_single_meta_action
MetaStep(c) ==
    /\ c \in agents /\ stack[c] # <<>> /\ Top(c).pc = "meta"
    /\ stack'[c] # stack[c] \/ worker_tasks'[c] # worker_tasks[c]

\* C32: an activation of a meta action never is at the cooldown wait, at
\* the remote call or at the retry back-off, has retried nothing and has
\* performed at most once; its one step neither starts a remote call nor a
\* sleep, whatever the character's cooldown: with the abort flag set it
\* returns failure and performs nothing, else it returns success for the
\* outcome SUCCESS, failure for FAIL, and the worker's task ends with the
\* exception for anything else.
C32_MetaActionRunsOnce ==
    [][\A c \in agents :
          /\ \A f \in Frames(c) :
                IsMetaAction(f.node) =>
                   /\ f.pc \in {"none", "enter", "meta"}
                   /\ f.retry_count = 0 /\ f.waited = 0 /\ f.calls <= 1
          /\ MetaStep(c) =>
                /\ api_result' = api_result
                /\ sleep_remaining' = sleep_remaining
                /\ remaining_cooldown' = remaining_cooldown
                /\ IF abort_actions[c]
                   THEN /\ ReturnsTop(c, FALSE)
                        /\ ret'[c].frame.calls = 0
                        /\ bank_reservations' = bank_reservations
                        /\ context' = context
                   ELSE LET outcome ==
                               meta_perform(bank_reservations, c, Top(c).node).outcome
                        IN CASE outcome = "SUCCESS" ->
                                   ReturnsTop(c, TRUE) /\ ret'[c].frame.calls = 1
                             [] outcome = "FAIL" ->
                                   ReturnsTop(c, FALSE) /\ ret'[c].frame.calls = 1
                             [] OTHER ->
                                   worker_tasks'[c] = "crashed" /\ stack'[c] = stack[c]]_vars

\* force_fail has returned failure after one execution while the character
\* is still on the cooldown of the rest before it
C32_Witness ==
    /\ scenario.name = "meta"
    /\ \E c \in agents :
          /\ remaining_cooldown[c] > 0
          /\ ret[c].frame.node = force_fail
          /\ ret[c].frame.pc = "meta"
          /\ ret[c].frame.calls = 1
          /\ ~ret[c].val
          /\ ~abort_actions[c]

(***************************************************************************)
(* Abort and the worker loop                                               *)
(***************************************************************************)
Running(c) == c \in DOMAIN worker_tasks /\ worker_tasks[c] = "run"
Crashed(c) == c \in DOMAIN worker_tasks /\ worker_tasks[c] = "crashed"
\* the worker of c is back at the top of its loop with the flag cleared
Cleared(c) ==
    c \in DOMAIN worker_tasks /\ worker_tasks[c] = "loop" /\ ~abort_actions[c]
AbortedRunning(c) == Running(c) /\ abort_actions[c]

AbortedInTryBody(c, k) ==
    /\ abort_actions[c] /\ Running(c)
    /\ k = abort_info[c].try_body /\ k > 0
\* the TRY at place k is past its body
PastBody(c, k) ==
    /\ Len(stack[c]) >= k
    /\ stack[c][k].pc \in {"try_success", "try_error", "try_finally"}
\* the TRY that was at place k has just returned
TryBack(c, k) ==
    /\ Len(stack[c]) = k - 1
    /\ IsControl(ret[c].frame.node, "TRY")
    /\ ret[c].frame.pc \in {"try_node", "try_success", "try_error", "try_finally"}
\* the TRY that has just returned had only its body to process, and the body
\* returned success
OnlyBodySucceeded(c) ==
    /\ ret[c].frame.hist = <<Event("node", TRUE)>>
    /\ ret[c].frame.node.success_path = <<>>
    /\ ret[c].frame.node.finally_path = <<>>
\* every node the TRY at place k enters after its body is skipped at the
\* check of _process_node and returns failure at once
PathsSkipped(c, k) ==
    /\ Len(stack[c]) <= k + 1
    /\ Len(stack[c]) = k + 1 => Top(c).pc = "enter" /\ Top(c).calls = 0
    /\ Len(stack[c]) = k =>
          /\ ret[c].frame.pc = "enter" /\ ret[c].frame.calls = 0
          /\ ~ret[c].val
    /\ \A j \in 2..Len(stack[c][k].hist) : ~stack[c][k].hist[j].val
\* after an abort in a TRY body the worker, not the TRY, has released what
\* the character held
ReleasedByWorker(c) ==
    (/\ c \in DOMAIN worker_tasks /\ worker_tasks[c] = "loop"
     /\ log[c].msg = "aborted" /\ abort_info[c].try_body > 0)
    => Holds(bank_reservations, c) = {}

\* C35 as stated: when the abort flag is set while the body of a TRY is
\* being processed, every node of its success_path, error_path and
\* finally_path is skipped without executing an action, the TRY returns
\* failure, and the worker releases the character's reservations afterwards.
C35_AbortInTryBody ==
    \A c \in agents :
        /\ ReleasedByWorker(c)
        /\ \A k \in 1..(Len(stack[c]) + 1) :
              AbortedInTryBody(c, k) =>
                 /\ PastBody(c, k) => PathsSkipped(c, k)
                 /\ TryBack(c, k) => ~ret[c].val

\* C35, amended: as stated, except that the TRY returns the success of its
\* body when the body returned success (the abort came during the remote
\* call of its last action) and the TRY has neither success_path nor
\* finally_path.
C35_AbortInTryBodySkipsPaths ==
    \A c \in agents :
        /\ ReleasedByWorker(c)
        /\ \A k \in 1..(Len(stack[c]) + 1) :
              AbortedInTryBody(c, k) =>
                 /\ PastBody(c, k) => PathsSkipped(c, k)
                 /\ TryBack(c, k) => (ret[c].val <=> OnlyBodySucceeded(c))

\* a held copper_ore and ash_wood when the abort came during the rest of the
\* TRY body; the finally_path that clears them was skipped, and the worker
\* released both after the node
C35_Witness ==
    /\ scenario.name = "ledger"
    /\ "a" \in agents
    /\ worker_tasks["a"] = "loop"
    /\ log["a"] = [msg |-> "aborted", released |-> {"copper_ore", "ash_wood"}]
    /\ abort_info["a"].try_body > 0
    /\ Holds(bank_reservations, "a") = {}
    /\ ret["a"].frame.hist = <<Event("child", TRUE), Event("child", FALSE)>>

\* the worker of c is on a node it took with the abort flag already set
TookAborted(c) == Running(c) /\ abort_actions[c] /\ abort_info[c].at = "none"

\* C36: only the worker's step after a node clears the abort flag, so a flag
\* set while the character is idle stays set; the worker takes the next
\* queued node with the flag still set, that node is skipped at the first
\* check and returns failure with no action executed and no remote call,
\* and the step that clears the flag leaves the character without
\* reservations and the nodes behind in the queue.
C36_IdleAbortHitsNextNode ==
    [][\A c \in agents :
          /\ (abort_actions[c] /\ ~abort_actions'[c]) =>
                /\ Finishes(c)
                /\ Holds(bank_reservations', c) = {}
                /\ queues'[c] = queues[c]
          /\ (Takes(c) /\ abort_actions[c]) =>
                /\ abort_actions'[c]
                /\ stack'[c] = <<Frame(Head(QueueAtPop(c)))>>
                /\ queues'[c] = Tail(QueueAtPop(c))
          /\ TookAborted(c) =>
                /\ api_result[c] = NoCall
                /\ Len(stack[c]) <= 1
                /\ stack[c] # <<>> => Top(c).pc = "enter" /\ Top(c).calls = 0
                /\ stack[c] = <<>> =>
                      /\ ret[c].frame.pc = "enter" /\ ret[c].frame.calls = 0
                      /\ ~ret[c].val
                /\ (stack[c] # <<>> /\ stack'[c] # stack[c]) => SkipsTop(c)]_vars

\* the node taken with the flag set was skipped whole, the worker has
\* cleared the flag, and a node queued meanwhile is waiting
C36_Witness ==
    \E c \in agents :
        /\ worker_tasks[c] = "loop"
        /\ ~abort_actions[c]
        /\ log[c].msg = "aborted"
        /\ abort_info[c].at = "none" /\ abort_info[c].skipped
        /\ ret[c].frame.pc = "enter" /\ ~ret[c].val
        /\ stack[c] = <<>>
        /\ queues[c] # <<>>

(***************************************************************************)
(* The worker loop after a failed node                                     *)
(***************************************************************************)
\* the worker of c is between two nodes (or c has no worker yet)
BetweenNodes(c) ==
    c \in DOMAIN worker_tasks => worker_tasks[c] \in {"start", "idle", "loop"}
\* the processing of every node ends: no worker stays on a node for ever
EveryNodeEnds == \A d \in Chars : []<>(~Running(d))
\* the worker of c is done with a node that returned failure, no abort asked
FailedNode(c) == Finishes(c) /\ ~abort_actions[c] /\ ~ret[c].val

Crashes(c) == ~Crashed(c) /\ worker_tasks'[c] = "crashed"

\* C38: the step in which a fatal error ends the task of c's worker gives
\* the event loop back and touches no other worker, its activations or any
\* queue; from then on the worker of c stays ended, takes no node, starts no
\* remote call and never holds the event loop again, and what is queued for
\* c only gets longer.
C38_FatalErrorEndsOneWorker ==
    [][\A c \in agents :
          /\ Crashes(c) =>
                /\ running \in {"none", c} /\ running' = "none"
                /\ queues' = queues
                /\ \A d \in agents \ {c} :
                      /\ worker_tasks'[d] = worker_tasks[d]
                      /\ stack'[d] = stack[d]
          /\ Crashed(c) =>
                /\ worker_tasks'[c] = "crashed"
                /\ stack'[c] = stack[c] /\ ret'[c] = ret[c]
                /\ ~CallStarts(c)
                /\ running # c /\ running' # c
                /\ Len(queues'[c]) >= Len(queues[c])
                /\ SubSeq(queues'[c], 1, Len(queues[c])) = queues[c]]_vars

\* the task of a's worker has ended with an exception, a node queued for a
\* stays in its queue, and the worker of b has since taken a node
C38_Witness ==
    /\ scenario.name = "ledger"
    /\ {"a", "b"} \subseteq agents
    /\ Crashed("a")
    /\ queues["a"] # <<>>
    /\ running = "b" /\ Running("b") /\ stack["b"] # <<>>

(***************************************************************************)
(* Actions with nothing to do                                              *)
(***************************************************************************)
\* the action c is about to perform has nothing to do: a move to where the
\* character stands, a deposit of everything from an empty inventory, a
\* withdrawal without a positive quantity, a gold transfer or a craft of
\* quantity 0, an equip from a queue that holds nothing
NothingToDo(c) ==
    LET a == Top(c).node IN
    \/ a.type = "MOVE" /\ "x" \in DOMAIN a
          /\ a.x = char_data[c].x /\ a.y = char_data[c].y
    \/ a.type = "BANK_DEPOSIT_ITEM" /\ DOMAIN char_data[c].inventory = {}
    \/ a.type = "BANK_WITHDRAW_ITEM"
          /\ \A k \in 1..Len(a.items) : a.items[k].quantity <= 0
    \/ a.type \in {"BANK_DEPOSIT_GOLD", "BANK_WITHDRAW_GOLD", "CRAFT"} /\ a.quantity = 0
    \/ a.type = "EQUIP" /\ "use_queue" \in DOMAIN a
          /\ ("equip_queue" \in DOMAIN context[c] => context[c]["equip_queue"] = <<>>)

\* C31: when the action a character performs, its abort flag not set, has
\* nothing to do, the action returns success in that very step without a
\* remote call, and the data of every character, the cooldowns, the
\* contexts and the bank snapshot are what they were.
C31_NothingToDoCancels ==
    [][\A c \in agents :
          ( /\ stack[c] # <<>>
            /\ Top(c).pc = "perform"
            /\ Moves(c)
            /\ ~abort_actions[c]
            /\ NothingToDo(c) )
              => /\ ReturnsTop(c, TRUE)
                 /\ ret'[c].frame.calls = Top(c).calls
                 /\ ~CallStarts(c)
                 /\ api_result' = api_result
                 /\ char_data' = char_data
                 /\ remaining_cooldown' = remaining_cooldown
                 /\ context' = context
                 /\ bank_data' = bank_data]_vars

\* the character was moved to (1, 0) by a first move, and a second move to
\* (1, 0) has returned success without a remote call
C31_Witness ==
    /\ scenario.name = "cancel"
    /\ ret["a"].frame.node = move_to(1, 0)
    /\ ret["a"].val
    /\ ret["a"].frame.calls = 0
    /\ "previous_location" \in DOMAIN context["a"]
    /\ context["a"]["previous_location"] = <<0, 0>>
    /\ char_data["a"].x = 1
    /\ stack["a"] # <<>> /\ Top("a").i = 2

(***************************************************************************)
(* Goals                                                                   *)
(***************************************************************************)
\* the worker of c is at the top of its loop with nothing queued, and the
\* step is the worker's
FindsQueueEmpty(c) ==
    /\ AtLoopTop(c)
    /\ queues[c] = <<>>
    /\ \/ worker_tasks'[c] # worker_tasks[c]
       \/ sleep_remaining'[c] > sleep_remaining[c]

GoalPlans ==
    {plan("CRAFT_OR_GATHER_INTERMEDIARIES", goal_item, 0) : goal_item \in Items}
    \cup {plan("GATHER_MATERIALS_FOR_CRAFT", goal_item, 0) : goal_item \in Items}
BackupPlan == plan("GATHER_RESOURCES", "copper_ore", 0)

AsksPantry(c) == FindsQueueEmpty(c) /\ action_mode[c] = "AUTO_GOAL_SUPPORT"
PantryPlan(k) == plan("CRAFT_OR_GATHER_INTERMEDIARIES", pantry_goals[k].item, 0)
WorldQuantity(k) == get_amount_of_item_in_world(pantry_goals[k].item)

Inf == 1000         \* math.inf: above every quantity of the orders checked
MaxInv == 3         \* largest quantity of one item in the inventory
MaxFree == 3        \* most free inventory spaces

\* floor(a / b) and a // b of Python, for b # 0
FloorDiv(a, b) == IF b > 0 THEN a \div b ELSE (0 - a) \div (0 - b)

\* ItemQuantity and its __post_init__: 0 stands for None, and a bound that is
\* not given (or is 0) becomes infinite
ItemQuantity(min, max, multiple_of) ==
    [min |-> IF min = 0 THEN 0 - Inf ELSE min,
     max |-> IF max = 0 THEN Inf ELSE max,
     multiple_of |-> multiple_of]
\* the assertions of __post_init__
ItemQuantityAccepted(min, max, multiple_of) ==
    /\ max > 0 \/ min > 0 \/ multiple_of # 0
    /\ (min # 0 /\ max # 0) => min <= max
ItemSelection(item, quantity) == [item |-> item, quantity |-> quantity]
ItemOrder(items, greedy_order, check_inv) ==
    [items |-> items, greedy_order |-> greedy_order, check_inv |-> check_inv]

get_number_of_items_in_inventory(data) == SumOver(data.inventory, DOMAIN data.inventory)
get_free_inventory_spaces(data) ==
    data.inventory_max_items - get_number_of_items_in_inventory(data)

\* "return []" inside the loop, or the quantity the pass goes on with
NoQuantity == [empty |-> TRUE, quantity |-> 0]
Quantity(quantity) == [empty |-> FALSE, quantity |-> quantity]

\* lines 109-126: the quantity clamped by the bank, the range and the space
clamped_quantity(item, order, inv, bank, free_inv_spaces) ==
    LET available_quantity == IF order.check_inv THEN inv + bank ELSE bank IN
    IF available_quantity < item.quantity.min THEN NoQuantity
    ELSE IF item.quantity.min <= free_inv_spaces /\ free_inv_spaces <= item.quantity.max
    THEN Quantity(Min(item.quantity.max, Min(bank, free_inv_spaces)))
    ELSE IF \/ order.check_inv /\ inv + free_inv_spaces < item.quantity.min
            \/ ~order.check_inv /\ free_inv_spaces < item.quantity.min
    THEN NoQuantity
    ELSE Quantity(Min(item.quantity.max, bank))

\* lines 128-145: what the inventory holds is taken off, multiples are rounded
adjusted_quantity(item, order, inv, free_inv_spaces, quantity) ==
    LET m == item.quantity.multiple_of IN
    IF order.check_inv /\ ~order.greedy_order
    THEN IF m # 0
         THEN Quantity(Max(0, FloorDiv(quantity + inv, m) * m - inv))
         ELSE Quantity(Min(free_inv_spaces,
                           Max(0, quantity - Max(0, (quantity + inv) - item.quantity.max))))
    ELSE IF m # 0
    THEN LET rounded == FloorDiv(quantity, m) * m IN
         IF rounded <= 0 THEN NoQuantity ELSE Quantity(rounded)
    ELSE Quantity(quantity)

\* lines 104-149: the loop over the order's items; acc is [empty, items, free]
RECURSIVE per_set_items(_, _, _, _, _)
per_set_items(todo, order, inv, bank, acc) ==
    IF todo = <<>> \/ acc.empty THEN acc
    ELSE LET item == Head(todo)
             i == item.item
             clamped == clamped_quantity(item, order, inv[i], bank[i], acc.free)
             adjusted == IF clamped.empty THEN NoQuantity
                         ELSE adjusted_quantity(item, order, inv[i], acc.free,
                                                clamped.quantity)
         IN IF adjusted.empty
            THEN [acc EXCEPT !.empty = TRUE]
            ELSE per_set_items(Tail(todo), order, inv, bank,
                     [empty |-> FALSE,
                      items |-> Append(acc.items, Entry(i, adjusted.quantity)),
                      free |-> acc.free - adjusted.quantity])

Quantities(items) == SumOver([k \in 1..Len(items) |-> items[k].quantity], 1..Len(items))
MinOver(f, S) == CHOOSE m \in {f[k] : k \in S} : \A k \in S : m <= f[k]

\* lines 157-179: as many sets as the inventory takes
greedy_need(items, order, inv, bank, free) ==
    LET K == 1..Len(items)
        sets_from_inv ==
            IF order.check_inv
            THEN MinOver([k \in K |-> FloorDiv(inv[items[k].code], items[k].quantity)], K)
            ELSE 0
        sets_from_total ==
            MinOver([k \in K |-> FloorDiv(inv[items[k].code] + bank[items[k].code],
                                          items[k].quantity)], K)
        sets_target == Min(sets_from_total, FloorDiv(free, Quantities(items)))
        additional_sets_needed == Max(0, sets_target - sets_from_inv)
    IN [k \in K |->
           Entry(items[k].code,
                 IF order.check_inv
                 THEN Max(0, additional_sets_needed * items[k].quantity)
                          - (inv[items[k].code] - sets_from_inv * items[k].quantity)
                 ELSE Max(0, additional_sets_needed * items[k].quantity))]

\* a division by zero among lines 158-164
greedy_raises(items) ==
    \/ \E k \in 1..Len(items) : items[k].quantity = 0
    \/ Quantities(items) = 0

NoItems == [raised |-> FALSE, items |-> <<>>]

\* _construct_item_list for an order of named items: the list returned, or
\* raised when the call ends in an exception
construct_item_list(data, bd, br, order) ==
    LET free == get_free_inventory_spaces(data)
        inv == [i \in Items |-> get_quantity_of_item_in_inventory(data, i)]
        bank == [i \in Items |-> get_amount_of_item_in_bank(bd, br, i)]
        per_set == per_set_items(order.items, order, inv, bank,
                                 [empty |-> FALSE, items |-> <<>>, free |-> free])
    IN IF per_set.empty THEN NoItems
       ELSE IF free < Quantities(per_set.items) THEN NoItems
       ELSE IF ~order.greedy_order THEN [raised |-> FALSE, items |-> per_set.items]
       ELSE IF greedy_raises(per_set.items) THEN [raised |-> TRUE, items |-> <<>>]
       ELSE [raised |-> FALSE,
             items |-> greedy_need(per_set.items, order, inv, bank, free)]

\* the orders checked: one or two different items, each with a range
OrderQuantities ==
    {ItemQuantity(min, max, multiple_of) :
        <<min, max, multiple_of>> \in
            {t \in (0..2) \X {0, 2} \X {0, 2} : ItemQuantityAccepted(t[1], t[2], t[3])}}
SecondQuantities == {ItemQuantity(1, 1, 0), ItemQuantity(1, 0, 0)}
OrderItems ==
    {<<ItemSelection(i, q)>> : i \in Items, q \in OrderQuantities}
    \cup {<<ItemSelection(i, q), ItemSelection(j, r)>> :
            <<i, j>> \in {p \in Items \X Items : p[1] # p[2]},
            <<q, r>> \in OrderQuantities \X SecondQuantities}
Orders ==
    {ItemOrder(items, greedy_order, check_inv) :
        items \in OrderItems, greedy_order \in BOOLEAN, check_inv \in BOOLEAN}

OrderScenarios == {[name |-> "order", n |-> 0, order |-> order] : order \in Orders}

\* char_data with the inventory and inventory_max_items
WithCapacity(inventory, inventory_max_items) ==
    [task_progress |-> 0, task_total |-> 1, inventory |-> inventory, x |-> 0, y |-> 0,
     inventory_max_items |-> inventory_max_items]
Inventories ==
    {WithCapacity(inventory, SumOver(inventory, Items) + free) :
        inventory \in [Items -> 0..MaxInv], free \in 0..MaxFree}

OrderInit ==
    /\ scenario \in OrderScenarios
    /\ agents = {"a"}
    /\ queues = [c \in {"a"} |-> <<>>]
    /\ worker_tasks = EmptyDict
    /\ running = "none"
    /\ stack = [c \in Chars |-> <<>>]
    /\ ret = [c \in Chars |-> [val |-> TRUE, frame |-> NoFrame]]
    /\ abort_actions = [c \in Chars |-> FALSE]
    /\ char_data \in {[c \in Chars |-> IF c = "a" THEN data ELSE WithCapacity(EmptyDict, 0)] :
                        data \in Inventories}
    /\ remaining_cooldown = [c \in Chars |-> 0]
    /\ sleep_remaining = [c \in Chars |-> 0]
    /\ api_result = [c \in Chars |-> NoCall]
    /\ bank_data \in [Items -> 0..MaxBank]
    /\ bank_reservations = EmptyDict
    /\ log = [c \in Chars |-> NoLog]
    /\ abort_info = [c \in Chars |-> NoAbort]
    /\ registrations = [c \in Chars |-> 0]
    /\ context = [c \in Chars |-> EmptyDict]
    /\ resolved = [c \in Chars |-> EmptyDict]
    /\ action_mode = [c \in Chars |-> "MANUAL"]
    /\ use_replenish_threshold = [k \in 1..Len(pantry_goals) |-> FALSE]
    /\ tracked = EmptyDict
    /\ pantry_seen = [k \in 1..Len(pantry_goals) |-> "never"]

\* the call of _construct_item_list in perform (line 565); ret holds the list
construct_item_list_call(c) ==
    /\ scenario.name = "order"
    /\ c \in agents
    /\ ret[c].frame.pc = "none"
    /\ ret' = [ret EXCEPT ![c] =
                  [val |-> construct_item_list(char_data[c], bank_data,
                                               bank_reservations, scenario.order),
                   frame |-> [NoFrame EXCEPT !.pc = "return"]]]
    /\ UNCHANGED <<scenario, pantry_seen, action_mode, use_replenish_threshold, tracked,
                   agents, queues, worker_tasks, running, stack, abort_actions,
                   char_data, remaining_cooldown, sleep_remaining, api_result,
                   bank_data, bank_reservations, log, abort_info, registrations,
                   context, resolved>>

OrderNext == \E c \in Chars : construct_item_list_call(c)
OrderSpec == OrderInit /\ [][OrderNext]_vars

\* the list the call built, once it has returned one
Built(c) == scenario.name = "order" /\ ret[c].frame.pc = "return" /\ ~ret[c].val.raised
AvailableFor(c, item) ==
    IF scenario.order.check_inv
    THEN get_quantity_of_item_in_inventory(char_data[c], item.item)
            + get_amount_of_item_in_bank(bank_data, bank_reservations, item.item)
    ELSE get_amount_of_item_in_bank(bank_data, bank_reservations, item.item)
SpaceFor(c, item) ==
    IF scenario.order.check_inv
    THEN get_quantity_of_item_in_inventory(char_data[c], item.item)
            + get_free_inventory_spaces(char_data[c])
    ELSE get_free_inventory_spaces(char_data[c])
MinimumUnmet(c) ==
    \E k \in 1..Len(scenario.order.items) :
        LET item == scenario.order.items[k] IN
        \/ AvailableFor(c, item) < item.quantity.min
        \/ SpaceFor(c, item) < item.quantity.min

\* C34: for every item order, bank, inventory and inventory capacity, the
\* list _construct_item_list builds is empty, or every entry's quantity is at
\* least 0 and at most the bank's available quantity of its item and the
\* quantities sum to at most the free inventory spaces; and the list is empty
\* whenever the available quantity or the free space cannot meet an item's
\* minimum.
C34_WithdrawalWithinBankAndSpace ==
    \A c \in Chars :
        Built(c) =>
            LET items == ret[c].val.items IN
            /\ \A k \in 1..Len(items) :
                  /\ items[k].quantity >= 0
                  /\ items[k].quantity
                        <= get_amount_of_item_in_bank(bank_data, bank_reservations,
                                                     items[k].code)
            /\ Quantities(items) <= get_free_inventory_spaces(char_data[c])
            /\ MinimumUnmet(c) => items = <<>>
====
